---- MODULE Spec2Model ----
(***************************************************************************)
(* Model of the WatchCharts harvest engine                                 *)
(* (crawler/watchcollection_crawler/pipelines/watchcharts.py).             *)
(*                                                                         *)
(* Three specifications share this module:                                 *)
(*   Spec         the crawl orchestrator (crawl_watchcharts_async and      *)
(*                retry_failed_async) with its durable files, run after    *)
(*                run, with process crashes between any two file           *)
(*                operations;                                              *)
(*   SpecListing  Phase 1: WatchChartsFetcher.fetch, crawl_listing_page    *)
(*                and crawl_all_listing_pages over a paginated site;       *)
(*   SpecRetry    retry_failed_rounds with the challenge-ratio rotation    *)
(*                trigger (should_rotate_credentials).                     *)
(*                                                                         *)
(* A listing entry is represented by its position in the site's listing    *)
(* (its _order_idx + 1); its watchcharts_id is site[position].  A record   *)
(* (WatchChartsModelDTO) is represented by its watchcharts_id.             *)
(***************************************************************************)
EXTENDS Integers, Sequences, FiniteSets, TLC

\* ---------------------------------------------------------------- bounds
\* number of distinct watchcharts_id values on the site
MaxId == 2
\* longest site listing (fits in one listing page, see LISTING_PAGE_SIZE)
MaxListing == 3
\* number of runs (invocations of the CLI) in one behaviour
MaxRuns == 2
\* number of process crashes in one behaviour
MaxCrashes == 1
MaxInvocations == MaxRuns + 1
\* concurrent detail/price-history tasks sharing one fetcher
NumTasks == 2
\* calls of the fetcher's operations in one behaviour
MaxCalls == 3
\* advances of the clock in one behaviour
MaxTicks == 2
\* workers sharing one AsyncCurlImpersonateClient, requests they make in
\* one behaviour, and seconds that pass
NumWorkers == 3
MaxRequests == 3
MaxPaceTicks == 4
\* records without history in the output file of a price-history-only run
NumHistoryModels == 2
\* keys of one series of a price-history payload
MaxSeriesKeys == 2
\* largest "concurrency" of a fetcher in the specification of timeouts
MaxFetcherConcurrency == 2
MaxCfWait == 4
MaxSolveSeconds == 1
NumLockTasks == 3
MaxLockWidth == 2
MaxLockOps == 2

\* ---------------------------------------------------- program constants
LISTING_PAGE_SIZE == 24
CHALLENGE_MIN_COUNT == 5
LISTING_RETRIES == 2
LISTING_RETRY_DELAY == 2
POLL_SLEEP == 1
CAPTCHA_SLEEP == 3
TOKEN_SETTLE == 2
LISTING_TERMINAL_HTTP == {"http 400", "http 404", "http 410"}
\* seconds: _refresh_min_interval, and the cooldowns and failure limits of
\* _note_ac_failure and _note_pw_failure
REFRESH_MIN_INTERVAL == 60
AC_BLOCK_COOLDOWN == 1800
AC_FAIL_LIMIT == 3
AC_FAIL_COOLDOWN == 300
PW_FAIL_LIMIT == 10
PW_COOLDOWN == 60
\* curl_impersonate.py: DEFAULT_MIN_DELAY, DEFAULT_MAX_DELAY (seconds), and
\* a value of time.time(), far from the initial last request time 0
DEFAULT_MIN_DELAY == 2
DEFAULT_MAX_DELAY == 4
EpochNow == 100

\* ------------------------------------------------------- run parameters
\* --batch (batch_size), --retry-rounds, --models (max_models)
BatchSize == 2
RetryRounds == 1
MaxModels == 3

\* --------------------------------------------------------------- helpers
Ids == 1..MaxId

SeqSet(s) == {s[i] : i \in DOMAIN s}

NoDup(s) == \A i, j \in DOMAIN s : i # j => s[i] # s[j]

Min2(a, b) == IF a < b THEN a ELSE b

Max2(a, b) == IF a > b THEN a ELSE b

\* python slice s[lo:hi] with 0-based bounds, lo >= 0, hi >= 0
Slice(s, lo, hi) ==
    LET h == Min2(hi, Len(s))
    IN  IF lo >= h THEN <<>> ELSE [k \in 1..(h - lo) |-> s[lo + k]]

\* the elements of a set of integers in ascending order: sorted(...)
RECURSIVE SortedSeq(_)
SortedSeq(S) ==
    IF S = {} THEN <<>>
    ELSE LET m == CHOOSE x \in S : \A y \in S : x <= y
         IN  <<m>> \o SortedSeq(S \ {m})

\* ------------------------------------------------------------ variables
VARIABLES
    site,          \* the site's listing: sequence of watchcharts_id
    outFile,       \* OUTPUT_DIR/<slug>.json
    ckptFile,      \* <slug>_checkpoint.json
    cacheFile,     \* <slug>_listings.json
    failedFile,    \* <slug>_failed.json
    pc,            \* position of the running coroutine
    mode,          \* "crawl" | "retry_failed" | "none"
    resume,        \* the resume argument of the run
    models,        \* models: sequence of watchcharts_id
    failed_urls,   \* failed_urls: sequence of failure entries
    start_index,
    listings,      \* listings: sequence of positions
    existing_ids,
    to_process,
    batch_idx,
    batch,         \* listings handed to the current process_batch call
    tasks,         \* detail tasks in flight: [pos, batchNo]
    models_by_idx, \* positions with an ok result in this process_batch
    round_failed,  \* failed_urls local of process_batch
    batch_models,
    recovered,
    remaining,     \* remaining of retry_failed_rounds
    round_idx,
    new_models,    \* retry_failed_async
    still_failed,  \* retry_failed_async
    save_processed,
    save_failed,   \* TRUE iff save_checkpoint got failed_urls (not None)
    \* history variables
    runs,
    crashes,
    completed,     \* number of crawl runs that returned normally
    attempted,     \* ids whose detail fetch was ever attempted
    abortCause,
    batchNo,       \* ordinal of the current batch in this run
    savedBatches,  \* save_checkpoint calls completed in Phase 2 of this run
    saveFrom,      \* the durable files when save_checkpoint was entered
    torn,          \* a crash left the durable files in a mixed state
    lastCount,     \* processed_count of the checkpoint this run continues
    lastWritten,   \* the checkpoint of the last batch save_checkpoint completed
    crashCkpt,     \* lastWritten when the previous process was killed
    resumedFrom    \* the checkpoint a resumed run loaded

crawlVars == <<site, outFile, ckptFile, cacheFile, failedFile, pc, mode,
               resume, models, failed_urls, start_index, listings,
               existing_ids, to_process, batch_idx, batch, tasks,
               models_by_idx, round_failed, batch_models, recovered,
               remaining, round_idx, new_models, still_failed, save_processed,
               save_failed, runs, crashes, completed, attempted, abortCause,
               batchNo, savedBatches, saveFrom, torn, lastCount,
               lastWritten, crashCkpt, resumedFrom>>


\* Phase 1 (SpecListing)
VARIABLES
    l_pages,       \* the site: entries on listing page 1, 2, ...
    l_rotate,      \* the rotate_credentials argument
    l_fallback,    \* FALSE iff the backend is brightdata (no browser fallback)
    l_pc,          \* "fetch" | "returned" | "raised"
    l_page_num,    \* page_num of crawl_all_listing_pages
    l_attempt,     \* attempt of crawl_listing_page
    l_all,         \* all_watches: the pages whose entries were appended
    l_failed,      \* the last fetcher.fetch raised
    l_lastErr,     \* its message, as the set of tokens it contains
    l_allTerminal, \* every response of the last fetch had a terminal status
    l_rotated,     \* the last attempt invoked fetcher.rotate_credentials
    l_slept        \* seconds it slept before the next attempt (0: none)

listVars == <<l_pages, l_rotate, l_fallback, l_pc, l_page_num, l_attempt,
              l_all, l_failed, l_lastErr, l_allTerminal, l_rotated, l_slept>>

\* retry rounds (SpecRetry)
VARIABLES
    r_remaining,   \* remaining: the reason of each failure entry
    r_threshold,   \* challenge_threshold, in tenths
    r_rotate,      \* the rotate_credentials argument
    r_pc,          \* "head" | "round" | "returned"
    r_round_idx,
    r_invoked,     \* this round invoked fetcher.rotate_credentials
    r_impersonate  \* this round invoked fetcher.rotate_impersonate

rotVars == <<r_remaining, r_threshold, r_rotate, r_pc, r_round_idx,
             r_invoked, r_impersonate>>

\* one process_batch call per round: semaphore and detail tasks (SpecConc)
VARIABLES
    c_concurrency,       \* the concurrency argument of the run
    c_retry_concurrency, \* the retry_concurrency argument (0: no override)
    c_round,             \* 0: the batch's first pass; r >= 1: retry round r
    c_width,             \* the concurrency argument of this process_batch
    c_sem,               \* value of the asyncio.Semaphore of process_batch
    c_task,              \* per detail task: "waiting" | "inside" | "done"
    c_pc                 \* "head" | "rotating" | "rotated" | "batch" |
                         \* "returned"

concVars == <<c_concurrency, c_retry_concurrency, c_round, c_width, c_sem,
              c_task, c_pc>>

\* fetch_detail and the result loop of process_batch (SpecDetail)
VARIABLES
    d_tasks,         \* idx of the detail tasks not yet consumed
    d_models_by_idx, \* models_by_idx: records [idx, reference]
    d_failed,        \* failed_urls of process_batch: [idx, reason]
    d_seen,          \* history: what each finished task fetched and parsed
    d_pc             \* "loop" | "returned"

detailVars == <<d_tasks, d_models_by_idx, d_failed, d_seen, d_pc>>

\* the fetcher's credential state and the coroutines using it (SpecCred)
VARIABLES
    k_now,   \* time.monotonic(), in seconds
    k_f,     \* the WatchChartsFetcher: its fields, without the underscore
    k_task,  \* per coroutine: operation, suspension point, locals, result
    k_g,     \* history: last credential write, refresh starts, counters
    k_calls  \* history: number of operations called so far

credVars == <<k_now, k_f, k_task, k_g, k_calls>>

\* AsyncCurlImpersonateClient and the workers calling it (SpecPace)
VARIABLES
    p_now,  \* time.time(), in seconds
    p_c,    \* the client: semaphore, lock, their waiters, last request time
    p_w,    \* per worker: suspension point, end of its sleep
    p_g     \* history: starts of the last two requests, counters

paceVars == <<p_now, p_c, p_w, p_g>>

\* evaluation of a function of the pipeline on one input
VARIABLES
    e_in,   \* the input
    e_out,  \* the result
    e_pc    \* "idle" | "ready" | "done"

evalVars == <<e_in, e_out, e_pc>>

laterVars == <<paceVars, evalVars>>

\* the variables of the specifications other than Spec, SpecListing and
\* SpecRetry
moreVars == <<concVars, detailVars, credVars, laterVars>>

notPace == <<crawlVars, listVars, rotVars, concVars, detailVars, credVars,
             evalVars>>

notEval == <<crawlVars, listVars, rotVars, concVars, detailVars, credVars,
             paceVars>>

baseVars == <<crawlVars, listVars, rotVars>>

otherVars == <<listVars, rotVars, moreVars>>

vars == <<crawlVars, listVars, rotVars, moreVars>>

\* ------------------------------------------------------------ the files
\* st: "absent" (no file), "partial" (opened for writing, json not complete)
\*     or "ok"
AbsentCkpt == [st |-> "absent", processed_count |-> 0, models |-> <<>>]
AbsentCache == [st |-> "absent", listings |-> <<>>]
AbsentFailed == [st |-> "absent", failed |-> <<>>]
AbsentOut == [st |-> "absent", models |-> <<>>]

\* a file that open(..., "w") has truncated and json.dump has not completed
PartialCkpt == [st |-> "partial", processed_count |-> 0, models |-> <<>>]
PartialCache == [st |-> "partial", listings |-> <<>>]
PartialFailed == [st |-> "partial", failed |-> <<>>]
PartialOut == [st |-> "partial", models |-> <<>>]

Durable == <<ckptFile, cacheFile, failedFile>>

IdOf(pos) == site[pos]

IdsOf(ms) == SeqSet(ms)

\* ids are interchangeable: only listings whose ids first occur in
\* increasing order (1, then 2, ...) are enumerated
FirstOccurrenceOrdered(s) ==
    \A i \in DOMAIN s : \A v \in 1..(s[i] - 1) : \E j \in 1..(i - 1) : s[j] = v

Sites == {s \in UNION {[1..n -> Ids] : n \in 0..MaxListing} :
             FirstOccurrenceOrdered(s)}

\* ----------------------------------------------------------------- Init
MemoryCleared ==
    /\ mode' = "none"
    /\ resume' = FALSE
    /\ models' = <<>>
    /\ failed_urls' = <<>>
    /\ start_index' = 0
    /\ listings' = <<>>
    /\ existing_ids' = {}
    /\ to_process' = <<>>
    /\ batch_idx' = 0
    /\ batch' = <<>>
    /\ tasks' = {}
    /\ models_by_idx' = {}
    /\ round_failed' = <<>>
    /\ batch_models' = <<>>
    /\ recovered' = <<>>
    /\ remaining' = <<>>
    /\ round_idx' = 0
    /\ new_models' = <<>>
    /\ still_failed' = <<>>
    /\ save_processed' = 0
    /\ save_failed' = FALSE
    /\ batchNo' = 0
    /\ savedBatches' = 0
    /\ lastCount' = 0
    /\ resumedFrom' = AbsentCkpt
    /\ saveFrom' = <<AbsentCkpt, AbsentCache, AbsentFailed>>

CrawlRest ==
    /\ outFile = AbsentOut
    /\ ckptFile = AbsentCkpt
    /\ cacheFile = AbsentCache
    /\ failedFile = AbsentFailed
    /\ pc = "idle"
    /\ mode = "none"
    /\ resume = FALSE
    /\ models = <<>>
    /\ failed_urls = <<>>
    /\ start_index = 0
    /\ listings = <<>>
    /\ existing_ids = {}
    /\ to_process = <<>>
    /\ batch_idx = 0
    /\ batch = <<>>
    /\ tasks = {}
    /\ models_by_idx = {}
    /\ round_failed = <<>>
    /\ batch_models = <<>>
    /\ recovered = <<>>
    /\ remaining = <<>>
    /\ round_idx = 0
    /\ new_models = <<>>
    /\ still_failed = <<>>
    /\ save_processed = 0
    /\ save_failed = FALSE
    /\ runs = 0
    /\ crashes = 0
    /\ completed = 0
    /\ attempted = {}
    /\ abortCause = "none"
    /\ batchNo = 0
    /\ savedBatches = 0
    /\ saveFrom = <<AbsentCkpt, AbsentCache, AbsentFailed>>
    /\ torn = FALSE
    /\ lastCount = 0
    /\ lastWritten = AbsentCkpt
    /\ crashCkpt = AbsentCkpt
    /\ resumedFrom = AbsentCkpt

filesUnchanged == UNCHANGED <<outFile, ckptFile, cacheFile, failedFile>>

\* -------------------------------------------------- loading the files
\* load_checkpoint: ([], 0) when the file does not exist
load_checkpoint == [models |-> ckptFile.models,
                    processed_count |-> ckptFile.processed_count]

load_listings_cache == cacheFile.listings

load_failed_urls == failedFile.failed

\* the "if m.watchcharts_id not in existing_ids: models.append(m)" loop of
\* the resume branch; existing_ids is computed once, before the loop
MergeCheckpointModels(ms, cms) ==
    LET have == IdsOf(ms)
    IN  ms \o SelectSeq(cms, LAMBDA m : m \notin have)

\* load_existing_models: the checkpoint's models when there are any,
\* otherwise the output file's
load_existing_models ==
    IF ckptFile.st # "absent" /\ ckptFile.models # <<>>
    THEN ckptFile.models
    ELSE outFile.models

\* json.load of a file that was opened for writing and never completed
\* raises JSONDecodeError
Unreadable(f) == f.st = "partial"

Abort(cause) ==
    /\ pc' = "aborted"
    /\ abortCause' = cause

\* -------------------------------------------------------- process_batch
\* the already-have test left out
SkipExistingOff(watch_id, existing) == FALSE

\* the two SKIP tests of the task-creation loop
SkipExisting(watch_id, existing) == watch_id \in existing

\* the duplicate test left out
SkipDuplicateOff(watch_id, batch_seen) == FALSE

SkipDuplicate(watch_id, batch_seen) == watch_id \in batch_seen

\* the task-creation loop: the positions a detail task is created for
RECURSIVE CreateTasks(_, _, _)
CreateTasks(bl, existing, batch_seen) ==
    IF bl = <<>> THEN {}
    ELSE LET watch_id == IdOf(Head(bl))
         IN  IF SkipExisting(watch_id, existing)
                THEN CreateTasks(Tail(bl), existing, batch_seen)
             ELSE IF SkipDuplicate(watch_id, batch_seen)
                THEN CreateTasks(Tail(bl), existing, batch_seen)
             ELSE {Head(bl)} \cup
                  CreateTasks(Tail(bl), existing, batch_seen \cup {watch_id})

\* batch_models = [models_by_idx[idx] for idx in sorted(models_by_idx)]
BatchModels(okPositions) ==
    LET ps == SortedSeq(okPositions)
    IN  [k \in DOMAIN ps |-> IdOf(ps[k])]

\* process_batch returning without awaiting its tasks
TasksNotAwaited == TRUE

\* the as_completed loop has consumed every task of the batch
AllTasksAwaited == tasks = {}

DetailOutcomes == {"ok", "empty", "error"}

ReasonOf(outcome) == IF outcome = "empty" THEN "empty_reference"
                     ELSE "fetch_error"

FailureEntry(pos, reason) == [pos |-> pos, reason |-> reason, attempt |-> 0]

\* ------------------------------------------------------ variable groups
fileVars == <<outFile, ckptFile, cacheFile, failedFile>>

batchVars == <<batch, tasks, models_by_idx, round_failed, batch_models,
               recovered, remaining, round_idx>>

retryVars == <<new_models, still_failed>>

saveVars == <<save_processed, save_failed>>

countVars == <<runs, crashes, completed>>

\* ------------------------------------------- crawl_watchcharts_async
\* From the entry of crawl_watchcharts_async to the end of fetcher.start:
\* read the output file, with resume the checkpoint and the failures, then
\* the listing cache; build existing_ids; construct the fetcher.
StartCrawl(res, cfgOk) ==
    /\ pc = "idle"
    /\ runs < MaxRuns
    /\ runs' = runs + 1
    /\ mode' = "crawl"
    /\ resume' = res
    /\ UNCHANGED <<otherVars, crashCkpt, site, fileVars, batchVars, retryVars, saveVars, crashes,
                   completed, attempted, batchNo, savedBatches, saveFrom,
                   torn, lastWritten, batch_idx>>
    /\ IF \/ Unreadable(outFile)
          \/ res /\ (Unreadable(ckptFile) \/ Unreadable(failedFile))
          \/ Unreadable(cacheFile)
       THEN /\ Abort("corrupt_file")
            /\ UNCHANGED <<models, failed_urls, start_index, listings,
                           existing_ids, to_process, resumedFrom, lastCount>>
       ELSE LET cp == IF res THEN load_checkpoint
                      ELSE [models |-> <<>>, processed_count |-> 0]
                m1 == IF res /\ cp.models # <<>>
                      THEN MergeCheckpointModels(outFile.models, cp.models)
                      ELSE outFile.models
                ls == load_listings_cache
            IN  /\ models' = m1
                /\ failed_urls' = IF res THEN load_failed_urls ELSE <<>>
                /\ start_index' = cp.processed_count
                /\ listings' = ls
                /\ existing_ids' = IdsOf(m1)
                /\ resumedFrom' = IF res THEN ckptFile ELSE AbsentCkpt
                /\ lastCount' = cp.processed_count
                /\ IF ~cfgOk
                   THEN \* RuntimeError raised by WatchChartsFetcher.__init__
                        /\ Abort("config")
                        /\ to_process' = <<>>
                   ELSE IF ls = <<>>
                   THEN /\ pc' = "phase1"
                        /\ to_process' = <<>>
                        /\ UNCHANGED abortCause
                   ELSE /\ pc' = "batch"
                        /\ to_process' = Slice(ls, cp.processed_count, MaxModels)
                        /\ UNCHANGED abortCause

\* Phase 1: crawl_all_listing_pages on a site whose listing fits in one
\* page.  "ok": the page is fetched and parsed; "terminal": the fetch fails
\* with a terminal HTTP error and pagination stops with what was collected
\* (nothing); "error": the fetch fails otherwise after the listing retries
\* and crawl_all_listing_pages re-raises.  Then save_checkpoint is entered.
ListingOutcomes == {"ok", "terminal", "error"}

Phase1(outcome) ==
    /\ pc = "phase1"
    /\ UNCHANGED <<otherVars, crashCkpt, site, fileVars, mode, resume, models, failed_urls,
                   start_index, existing_ids, to_process, batch_idx,
                   batchVars, retryVars, countVars, attempted, batchNo,
                   savedBatches, torn, lastWritten, lastCount, resumedFrom>>
    /\ IF outcome = "error"
       THEN /\ Abort("listing_fetch")
            /\ UNCHANGED <<listings, saveVars, saveFrom>>
       ELSE /\ listings' = IF outcome = "ok"
                           THEN [i \in 1..Len(site) |-> i] ELSE <<>>
            /\ save_processed' = start_index
            /\ save_failed' = FALSE
            /\ saveFrom' = Durable
            /\ pc' = "ck_open"
            /\ UNCHANGED abortCause

\* ------------------------------------------------------ save_checkpoint
\* save_checkpoint never given the failures
SaveTargetWithoutFailures ==
    <<[st |-> "ok", processed_count |-> save_processed, models |-> models],
      [st |-> "ok", listings |-> listings],
      failedFile>>

\* what save_checkpoint leaves on disk when it returns
SaveTarget ==
    <<[st |-> "ok", processed_count |-> save_processed, models |-> models],
      [st |-> "ok", listings |-> listings],
      IF save_failed THEN [st |-> "ok", failed |-> failed_urls]
      ELSE failedFile>>

\* save_checkpoint has returned: Phase 2 begins, or the batch loop advances
AfterSave ==
    IF save_failed
    THEN /\ batch_idx' = batch_idx + BatchSize
         /\ savedBatches' = savedBatches + 1
         /\ UNCHANGED to_process
    ELSE /\ to_process' = Slice(listings, start_index, MaxModels)
         /\ batch_idx' = 0
         /\ UNCHANGED savedBatches

saveFrame == UNCHANGED <<otherVars, crashCkpt, site, outFile, mode, resume, models, failed_urls,
                         start_index, listings, existing_ids, batchVars,
                         retryVars, saveVars, countVars, attempted,
                         abortCause, batchNo, saveFrom, torn, resumedFrom>>

\* open(checkpoint_file, "w")
SaveOpenCheckpoint ==
    /\ pc = "ck_open"
    /\ ckptFile' = PartialCkpt
    /\ pc' = "ck_dump"
    /\ saveFrame
    /\ UNCHANGED <<cacheFile, failedFile, to_process, batch_idx,
                   savedBatches, lastCount, lastWritten>>

\* json.dump(checkpoint, f) and close
SaveDumpCheckpoint ==
    /\ pc = "ck_dump"
    /\ ckptFile' = SaveTarget[1]
    /\ lastCount' = save_processed
    /\ UNCHANGED lastWritten
    /\ pc' = "ls_open"
    /\ saveFrame
    /\ UNCHANGED <<cacheFile, failedFile, to_process, batch_idx,
                   savedBatches>>

\* open(listings_cache, "w")
SaveOpenListings ==
    /\ pc = "ls_open"
    /\ cacheFile' = PartialCache
    /\ pc' = "ls_dump"
    /\ saveFrame
    /\ UNCHANGED <<ckptFile, failedFile, to_process, batch_idx,
                   savedBatches, lastCount, lastWritten>>

\* json.dump(listings, f) and close; with failed_urls None this is the end
SaveDumpListings ==
    /\ pc = "ls_dump"
    /\ cacheFile' = SaveTarget[2]
    /\ saveFrame
    /\ UNCHANGED <<ckptFile, failedFile, lastCount, lastWritten>>
    /\ IF save_failed
       THEN /\ pc' = "fl_open"
            /\ UNCHANGED <<to_process, batch_idx, savedBatches>>
       ELSE /\ pc' = "batch"
            /\ AfterSave

\* open(failed_urls_file, "w")
SaveOpenFailed ==
    /\ pc = "fl_open"
    /\ failedFile' = PartialFailed
    /\ pc' = "fl_dump"
    /\ saveFrame
    /\ UNCHANGED <<ckptFile, cacheFile, to_process, batch_idx,
                   savedBatches, lastCount, lastWritten>>

\* json.dump({"failed": failed_urls, ...}, f) and close
SaveDumpFailed ==
    /\ pc = "fl_dump"
    /\ failedFile' = SaveTarget[3]
    /\ pc' = "batch"
    /\ AfterSave
    /\ saveFrame
    /\ UNCHANGED <<ckptFile, cacheFile, lastCount>>
    /\ lastWritten' = ckptFile

\* ------------------------------------------------------- the batch loop
FirstPassBatch == Slice(to_process, batch_idx, batch_idx + BatchSize)

TasksFor(bl, n) == {[pos |-> p, batchNo |-> n] : p \in CreateTasks(bl, existing_ids, {})}

\* one iteration of "for batch_idx in range(0, len(to_process), batch_size)"
\* up to the creation of the detail tasks in process_batch
BatchBegin ==
    /\ pc = "batch"
    /\ batch_idx < Len(to_process)
    /\ batch' = FirstPassBatch
    /\ batchNo' = batchNo + 1
    /\ tasks' = tasks \cup TasksFor(FirstPassBatch, batchNo + 1)
    /\ models_by_idx' = {}
    /\ round_failed' = <<>>
    /\ batch_models' = <<>>
    /\ recovered' = <<>>
    /\ remaining' = <<>>
    /\ round_idx' = 0
    /\ pc' = "tasks"
    /\ UNCHANGED <<otherVars, crashCkpt, site, fileVars, mode, resume, models, failed_urls,
                   start_index, listings, existing_ids, to_process,
                   batch_idx, retryVars, saveVars, countVars, attempted,
                   abortCause, savedBatches, saveFrom, torn, lastWritten, lastCount,
                   resumedFrom>>

\* a detail task finishes and the as_completed loop records its result
TaskDone(t, outcome) ==
    /\ pc \in {"tasks", "rtasks"}
    /\ t \in tasks
    /\ tasks' = tasks \ {t}
    /\ attempted' = attempted \cup {IdOf(t.pos)}
    /\ IF outcome = "ok"
       THEN /\ models_by_idx' = models_by_idx \cup {t.pos}
            /\ existing_ids' = existing_ids \cup {IdOf(t.pos)}
            /\ UNCHANGED round_failed
       ELSE /\ round_failed' =
                  Append(round_failed, FailureEntry(t.pos, ReasonOf(outcome)))
            /\ UNCHANGED <<models_by_idx, existing_ids>>
    /\ UNCHANGED <<otherVars, crashCkpt, site, fileVars, pc, mode, resume, models, failed_urls,
                   start_index, listings, to_process, batch_idx, batch,
                   batch_models, recovered, remaining, round_idx, retryVars,
                   saveVars, countVars, abortCause, batchNo, savedBatches,
                   saveFrom, torn, lastWritten, lastCount, resumedFrom>>

\* batch_start taken as batch_idx, without start_index
ProcessedWithoutOffset == batch_idx + Len(FirstPassBatch)

\* batch_start + len(batch), with batch_start = start_index + batch_idx
ProcessedAfterBatch == start_index + batch_idx + Len(FirstPassBatch)

\* the batch is over (retry rounds included): extend the accumulators and,
\* in a crawl, enter save_checkpoint with batch_start + len(batch)
MergeBatch(bm, bf) ==
    IF mode = "crawl"
    THEN /\ models' = models \o bm
         /\ failed_urls' = failed_urls \o bf
         /\ save_processed' = ProcessedAfterBatch
         /\ save_failed' = TRUE
         /\ saveFrom' = Durable
         /\ pc' = "ck_open"
         /\ UNCHANGED <<retryVars, batch_idx>>
    ELSE /\ new_models' = new_models \o bm
         /\ still_failed' = still_failed \o bf
         /\ batch_idx' = batch_idx + BatchSize
         /\ pc' = "batch"
         /\ UNCHANGED <<models, failed_urls, saveVars, saveFrom>>

\* process_batch returns to the batch loop
BatchCollect ==
    /\ pc = "tasks"
    /\ AllTasksAwaited
    /\ LET bm == BatchModels(models_by_idx)
       IN  /\ batch_models' = bm
           /\ IF RetryRounds > 0 /\ round_failed # <<>>
              THEN /\ remaining' = round_failed
                   /\ recovered' = <<>>
                   /\ round_idx' = 0
                   /\ pc' = "retry"
                   /\ UNCHANGED <<models, failed_urls, saveVars, saveFrom,
                                  retryVars, batch_idx>>
              ELSE /\ MergeBatch(bm, round_failed)
                   /\ UNCHANGED <<remaining, recovered, round_idx>>
    /\ UNCHANGED <<otherVars, crashCkpt, site, fileVars, mode, resume, start_index, listings,
                   existing_ids, to_process, batch, tasks, models_by_idx,
                   round_failed, countVars, attempted, abortCause, batchNo,
                   savedBatches, torn, lastWritten, lastCount, resumedFrom>>

\* ------------------------------------------------- retry_failed_rounds
RemainingListings == [k \in DOMAIN remaining |-> remaining[k].pos]

\* head of "for round_idx in range(retry_rounds)": another round runs
\* process_batch over the remaining failures
RetryRoundBegin ==
    /\ pc = "retry"
    /\ round_idx < RetryRounds
    /\ remaining # <<>>
    /\ batch' = RemainingListings
    /\ tasks' = tasks \cup TasksFor(RemainingListings, batchNo)
    /\ models_by_idx' = {}
    /\ round_failed' = <<>>
    /\ pc' = "rtasks"
    /\ UNCHANGED <<otherVars, crashCkpt, site, fileVars, mode, resume, models, failed_urls,
                   start_index, listings, existing_ids, to_process,
                   batch_idx, batch_models, recovered, remaining, round_idx,
                   retryVars, saveVars, countVars, attempted, abortCause,
                   batchNo, savedBatches, saveFrom, torn, lastWritten, lastCount,
                   resumedFrom>>

\* the round's process_batch returns: recovered.extend(round_models),
\* entry["attempt"] = round_num, remaining = round_failed
RoundCollect ==
    /\ pc = "rtasks"
    /\ AllTasksAwaited
    /\ recovered' = recovered \o BatchModels(models_by_idx)
    /\ remaining' = [k \in DOMAIN round_failed |->
                        [round_failed[k] EXCEPT !.attempt = round_idx + 1]]
    /\ round_idx' = round_idx + 1
    /\ pc' = "retry"
    /\ UNCHANGED <<otherVars, crashCkpt, site, fileVars, mode, resume, models, failed_urls,
                   start_index, listings, existing_ids, to_process,
                   batch_idx, batch, tasks, models_by_idx, round_failed,
                   batch_models, retryVars, saveVars, countVars, attempted,
                   abortCause, batchNo, savedBatches, saveFrom, torn, lastWritten,
                   lastCount, resumedFrom>>

\* retry_failed_rounds returns (rounds exhausted or nothing remaining)
RetryReturn ==
    /\ pc = "retry"
    /\ ~(round_idx < RetryRounds /\ remaining # <<>>)
    /\ MergeBatch(batch_models \o recovered, remaining)
    /\ UNCHANGED <<otherVars, crashCkpt, site, fileVars, mode, resume, start_index, listings,
                   existing_ids, to_process, batchVars, countVars,
                   attempted, abortCause, batchNo, savedBatches, torn, lastWritten,
                   lastCount, resumedFrom>>

\* ------------------------------------------------------- run completion
\* the batch loop is exhausted.  A crawl closes the fetcher and goes on to
\* write the output file; retry_failed_async does models.extend(new_models)
\* and goes on to rewrite the failed-entries file.
LoopExit ==
    /\ pc = "batch"
    /\ batch_idx >= Len(to_process)
    /\ IF mode = "crawl"
       THEN /\ pc' = "out_open"
            /\ UNCHANGED models
       ELSE /\ pc' = "rf_open"
            /\ models' = models \o new_models
    /\ UNCHANGED <<otherVars, crashCkpt, site, fileVars, mode, resume, failed_urls, start_index,
                   listings, existing_ids, to_process, batch_idx, batchVars,
                   retryVars, saveVars, countVars, attempted, abortCause,
                   batchNo, savedBatches, saveFrom, torn, lastWritten, lastCount,
                   resumedFrom>>

finalFrame == UNCHANGED <<otherVars, crashCkpt, site, mode, resume, models, failed_urls,
                          start_index, listings, existing_ids, to_process,
                          batch_idx, batchVars, retryVars, saveVars, runs,
                          crashes, attempted, batchNo, savedBatches,
                          saveFrom, torn, lastCount, resumedFrom>>

\* open(output_file, "w")
OutputOpen ==
    /\ pc = "out_open"
    /\ outFile' = PartialOut
    /\ pc' = "out_dump"
    /\ finalFrame
    /\ UNCHANGED <<ckptFile, cacheFile, failedFile, completed, abortCause, lastWritten>>

\* json.dump(catalog...) and close; retry_failed_async returns here
OutputDump ==
    /\ pc = "out_dump"
    /\ outFile' = [st |-> "ok", models |-> models]
    /\ IF mode = "crawl"
       THEN pc' = "unlink_ckpt" /\ UNCHANGED completed
       ELSE pc' = "done" /\ UNCHANGED completed
    /\ finalFrame
    /\ UNCHANGED <<ckptFile, cacheFile, failedFile, abortCause, lastWritten>>

\* if checkpoint_file.exists(): checkpoint_file.unlink()
UnlinkCheckpoint ==
    /\ pc = "unlink_ckpt"
    /\ ckptFile' = AbsentCkpt
    /\ lastWritten' = AbsentCkpt
    /\ pc' = "unlink_cache"
    /\ finalFrame
    /\ UNCHANGED <<outFile, cacheFile, failedFile, completed, abortCause>>

\* if listings_cache.exists(): listings_cache.unlink(); return catalog
UnlinkListings ==
    /\ pc = "unlink_cache"
    /\ cacheFile' = AbsentCache
    /\ pc' = "done"
    /\ completed' = completed + 1
    /\ finalFrame
    /\ UNCHANGED <<outFile, ckptFile, failedFile, abortCause, lastWritten>>

\* --------------------------------------------------- retry_failed_async
ListingsToRetry(failed, existing) ==
    LET keep == SelectSeq(failed, LAMBDA f : IdOf(f.pos) \notin existing)
    IN  [k \in DOMAIN keep |-> keep[k].pos]

\* From the entry of retry_failed_async to the end of fetcher.start.
\* (One invocation more than MaxRuns is followed when it is a retry-failed.)
StartRetryFailed(cfgOk) ==
    /\ pc = "idle"
    /\ runs < MaxInvocations
    /\ runs' = runs + 1
    /\ mode' = "retry_failed"
    /\ UNCHANGED <<otherVars, crashCkpt, site, fileVars, resume, failed_urls, start_index,
                   listings, batch_idx, batchVars, retryVars, saveVars,
                   crashes, attempted, batchNo, savedBatches, saveFrom,
                   torn, lastWritten, lastCount, resumedFrom>>
    /\ IF Unreadable(failedFile)
       THEN /\ Abort("corrupt_file")
            /\ UNCHANGED <<models, existing_ids, to_process, completed>>
       ELSE IF load_failed_urls = <<>>
       THEN \* "No failed URLs to retry"
            /\ pc' = "done"
            /\ UNCHANGED <<models, existing_ids, to_process, abortCause,
                           completed>>
       ELSE IF \/ Unreadable(ckptFile)
               \/ ckptFile.models = <<>> /\ Unreadable(outFile)
       THEN /\ Abort("corrupt_file")
            /\ UNCHANGED <<models, existing_ids, to_process, completed>>
       ELSE LET ms == load_existing_models
                todo == ListingsToRetry(load_failed_urls, IdsOf(ms))
            IN  /\ models' = ms
                /\ existing_ids' = IdsOf(ms)
                /\ IF todo = <<>>
                   THEN \* "All previously failed URLs are now successful"
                        /\ pc' = "done"
                        /\ to_process' = <<>>
                        /\ UNCHANGED <<abortCause, completed>>
                   ELSE IF ~cfgOk
                   THEN /\ Abort("config")
                        /\ to_process' = <<>>
                        /\ UNCHANGED completed
                   ELSE /\ pc' = "batch"
                        /\ to_process' = todo
                        /\ UNCHANGED <<abortCause, completed>>

\* open(failed_urls_file, "w")
RetryOpenFailed ==
    /\ pc = "rf_open"
    /\ failedFile' = PartialFailed
    /\ pc' = "rf_dump"
    /\ finalFrame
    /\ UNCHANGED <<outFile, ckptFile, cacheFile, completed, abortCause, lastWritten>>

\* json.dump({"failed": still_failed, ...}); then the output file is read
\* for total_available before it is rewritten
RetryDumpFailed ==
    /\ pc = "rf_dump"
    /\ failedFile' = [st |-> "ok", failed |-> still_failed]
    /\ IF Unreadable(outFile)
       THEN Abort("corrupt_file")
       ELSE pc' = "out_open" /\ UNCHANGED abortCause
    /\ finalFrame
    /\ UNCHANGED <<outFile, ckptFile, cacheFile, completed, lastWritten>>

\* ------------------------------------------------- crash and process end
SavePcs == {"ck_open", "ck_dump", "ls_open", "ls_dump", "fl_open", "fl_dump"}

RunningPcs == {"phase1", "batch", "tasks", "rtasks", "retry", "out_open",
               "out_dump", "unlink_ckpt", "unlink_cache", "rf_open",
               "rf_dump"} \cup SavePcs

\* the process is killed; only the files survive
Crash ==
    /\ pc \in RunningPcs
    /\ crashes < MaxCrashes
    /\ crashes' = crashes + 1
    /\ pc' = "idle"
    /\ torn' = (torn \/ (pc \in SavePcs /\ Durable # saveFrom
                                        /\ Durable # SaveTarget))
    /\ MemoryCleared
    /\ abortCause' = "none"
    /\ crashCkpt' = lastWritten
    /\ UNCHANGED <<otherVars, lastWritten, site, fileVars, runs, completed, attempted>>

\* the process ends (normal return, or exception out of asyncio.run)
Exit ==
    /\ pc \in {"done", "aborted"}
    /\ pc' = "idle"
    /\ MemoryCleared
    /\ abortCause' = "none"
    /\ crashCkpt' = AbsentCkpt
    /\ UNCHANGED <<otherVars, lastWritten, site, fileVars, countVars, attempted, torn>>

\* ====================================================== failure messages
\* An error message is modelled by the set of the substrings ("tokens"),
\* among those the code looks for, that its lower-cased text contains.
HttpToken(status) ==
    CASE status = 400 -> "http 400"
      [] status = 403 -> "http 403"
      [] status = 404 -> "http 404"
      [] status = 410 -> "http 410"
      [] status = 429 -> "http 429"
      [] status = 500 -> "http 500"
      [] status = 503 -> "http 503"
      [] OTHER -> "http other"

classify_failure(reason) ==
    IF "cloudflare challenge" \in reason THEN "challenge"
    ELSE IF "http 403" \in reason \/ "http 429" \in reason
            \/ "http 503" \in reason THEN "challenge"
    ELSE IF "timeout" \in reason THEN "timeout"
    ELSE "other"

is_listing_terminal_error(exc) == \E token \in LISTING_TERMINAL_HTTP : token \in exc

is_challenge_error(exc) == classify_failure(exc) = "challenge"

\* ----------------------------------------------------- is_challenge_html
\* a body is "page" (text without a marker), "empty" or "challenge" (text
\* with one of CHALLENGE_TEXT_MARKERS)
Bodies == {"page", "empty", "challenge"}

\* is_challenge_html without "if not html: return True"
MarkersOnly(html) == html = "challenge"

is_challenge_html(html) == html = "empty" \/ html = "challenge"

\* ------------------------------------------------ WatchChartsFetcher.fetch
Statuses == {200, 403, 404, 410, 500}

TerminalStatuses == {400, 404, 410}

\* what one _get call gives: a response, or a transport exception whose
\* text mentions a timeout or not
Responses ==
    [kind : {"resp"}, status : Statuses, body : Bodies, text : {"none"}]
    \cup [kind : {"exc"}, status : {0}, body : {"empty"},
          text : {"timeout", "refused"}]

ExcTokens(text) == IF text = "timeout" THEN {"timeout"} ELSE {}

\* the "for attempt in range(self.retries + 1)" loop: resps[k] is what the
\* k-th _get gives.  The result tells whether a body was returned, after
\* how many _get calls, and otherwise last_error and challenge_count.
RECURSIVE FetchLoop(_, _, _, _)
FetchLoop(resps, k, last_error, challenge_count) ==
    IF k > Len(resps)
    THEN [ok |-> FALSE, used |-> Len(resps), last_error |-> last_error,
          challenge_count |-> challenge_count]
    ELSE LET r == resps[k]
         IN  IF r.kind = "exc"
             THEN FetchLoop(resps, k + 1, ExcTokens(r.text), challenge_count)
             ELSE IF r.status < 400 /\ ~is_challenge_html(r.body)
             THEN [ok |-> TRUE, used |-> k, last_error |-> {},
                   challenge_count |-> challenge_count]
             ELSE IF is_challenge_html(r.body)
             THEN FetchLoop(resps, k + 1, {"cloudflare challenge"},
                            challenge_count + 1)
             ELSE FetchLoop(resps, k + 1, {HttpToken(r.status)},
                            challenge_count)

\* fetch(url, allow_fallback): pw is what _fetch_via_playwright gives
\* ("none" for None).  RuntimeError("Failed after N attempts: <last_error>")
\* contains the tokens of last_error.
PlaywrightResults == {"none", "page", "challenge"}

Fetch(resps, allow_fallback, pw) ==
    LET loop == FetchLoop(resps, 1, {}, 0)
    IN  IF loop.ok THEN [ok |-> TRUE, used |-> loop.used, err |-> {}]
        ELSE IF allow_fallback /\ loop.challenge_count > 0
                /\ pw # "none" /\ ~is_challenge_html(pw)
        THEN [ok |-> TRUE, used |-> loop.used, err |-> {}]
        ELSE [ok |-> FALSE, used |-> loop.used, err |-> loop.last_error]

\* every response the fetch consumed was an HTTP response with a terminal
\* status
AllTerminal(resps, used) ==
    \A k \in 1..used : resps[k].kind = "resp" /\ resps[k].status \in TerminalStatuses

CrawlInit == site \in Sites /\ CrawlRest

\* the crawl variables when another specification runs
CrawlIdle == site = <<>> /\ CrawlRest

\* ================================================== Phase 1 (SpecListing)
\* fetcher.retries (--retries) and the listing page cap (max_pages)
FetchRetries == 1
ListingPagesCap == 2
MaxSitePages == ListingPagesCap + 1

PageSizes == {0, 1, LISTING_PAGE_SIZE}

FetchAttempts == [1..(FetchRetries + 1) -> Responses]

ListInit ==
    /\ l_pages \in [1..MaxSitePages -> PageSizes]
    /\ l_rotate \in BOOLEAN
    /\ l_fallback \in BOOLEAN
    /\ l_pc = "fetch"
    /\ l_page_num = 1
    /\ l_attempt = 0
    /\ l_all = <<>>
    /\ l_failed = FALSE
    /\ l_lastErr = {}
    /\ l_allTerminal = FALSE
    /\ l_rotated = FALSE
    /\ l_slept = 0

ListIdle ==
    /\ l_pages = <<>>
    /\ l_rotate = FALSE
    /\ l_fallback = FALSE
    /\ l_pc = "off"
    /\ l_page_num = 1
    /\ l_attempt = 0
    /\ l_all = <<>>
    /\ l_failed = FALSE
    /\ l_lastErr = {}
    /\ l_allTerminal = FALSE
    /\ l_rotated = FALSE
    /\ l_slept = 0

\* crawl_all_listing_pages after a page with entries: the pagination stops
\* at a page shorter than LISTING_PAGE_SIZE and at max_pages
LastListingPageAtCap(watches, page_num) == page_num + 1 > ListingPagesCap

LastListingPage(watches, page_num) ==
    watches < LISTING_PAGE_SIZE \/ page_num + 1 > ListingPagesCap

\* crawl_listing_page: the sleep after the failed attempt "attempt"
ConstantBackoff(attempt, attempts) ==
    IF attempt < attempts - 1 THEN LISTING_RETRY_DELAY ELSE 0

ListingBackoff(attempt, attempts) ==
    IF attempt < attempts - 1 /\ LISTING_RETRY_DELAY > 0
    THEN LISTING_RETRY_DELAY * (attempt + 1)
    ELSE 0

\* One iteration of the attempt loop of crawl_listing_page, with what
\* crawl_all_listing_pages does when crawl_listing_page returns or raises.
ListingAttempt(resps, pw) ==
    /\ l_pc = "fetch"
    /\ LET f == Fetch(resps, l_fallback, pw)
           attempts == Max2(0, LISTING_RETRIES) + 1
           watches == l_pages[l_page_num]
       IN  /\ l_failed' = ~f.ok
           /\ l_lastErr' = f.err
           /\ l_allTerminal' = AllTerminal(resps, f.used)
           /\ l_slept' = IF f.ok \/ is_listing_terminal_error(f.err) THEN 0
                         ELSE ListingBackoff(l_attempt, attempts)
           /\ IF f.ok
              THEN \* return parse_listing_html(html)
                   /\ l_rotated' = FALSE
                   /\ IF watches = 0
                      THEN /\ l_pc' = "returned"
                           /\ UNCHANGED <<l_all, l_page_num, l_attempt>>
                      ELSE /\ l_all' = Append(l_all, l_page_num)
                           /\ IF LastListingPage(watches, l_page_num)
                              THEN /\ l_pc' = "returned"
                                   /\ UNCHANGED <<l_page_num, l_attempt>>
                              ELSE /\ l_page_num' = l_page_num + 1
                                   /\ l_attempt' = 0
                                   /\ UNCHANGED l_pc
              ELSE IF is_listing_terminal_error(f.err)
              THEN \* raise; crawl_all_listing_pages stops the pagination
                   /\ l_rotated' = FALSE
                   /\ l_pc' = "returned"
                   /\ UNCHANGED <<l_all, l_page_num, l_attempt>>
              ELSE /\ l_rotated' = (is_challenge_error(f.err) /\ l_rotate)
                   /\ UNCHANGED <<l_all, l_page_num>>
                   /\ IF l_attempt < attempts - 1
                      THEN /\ l_attempt' = l_attempt + 1
                           /\ UNCHANGED l_pc
                      ELSE \* raise last_exc; crawl_all_listing_pages re-raises
                           /\ l_pc' = "raised"
                           /\ UNCHANGED l_attempt
    /\ UNCHANGED <<l_pages, l_rotate, l_fallback>>
    /\ UNCHANGED <<crawlVars, rotVars, moreVars>>

\* ================================================ retry rounds (SpecRetry)
MaxFailures == 5

\* retry_rounds of this specification
RetryRoundsR == RetryRounds + 1

\* challenge_threshold values, in tenths
Thresholds == {0, 6, 10}

RetryReasons == {{"cloudflare challenge"}, {"http 403"}, {"timeout"}}

ReasonLists(n) == UNION {[1..k -> RetryReasons] : k \in 0..n}

ChallengeCount(failed) ==
    Cardinality({k \in DOMAIN failed : classify_failure(failed[k]) = "challenge"})

\* the minimum sample size tested with <= instead of <
ShouldRotateOffByOne(failed, threshold) ==
    IF failed = <<>> \/ Len(failed) <= CHALLENGE_MIN_COUNT THEN FALSE
    ELSE IF ChallengeCount(failed) = 0 THEN FALSE
    ELSE ChallengeCount(failed) * 10 >= threshold * Len(failed)

\* threshold is in tenths: count / len >= threshold / 10
should_rotate_credentials(failed, threshold) ==
    IF failed = <<>> \/ Len(failed) < CHALLENGE_MIN_COUNT THEN FALSE
    ELSE IF ChallengeCount(failed) = 0 THEN FALSE
    ELSE ChallengeCount(failed) * 10 >= threshold * Len(failed)

RetryInit ==
    /\ r_remaining \in ReasonLists(MaxFailures) \ {<<>>}
    /\ r_threshold \in Thresholds
    /\ r_rotate \in BOOLEAN
    /\ r_pc = "head"
    /\ r_round_idx = 0
    /\ r_invoked = FALSE
    /\ r_impersonate = FALSE

RetryIdle ==
    /\ r_remaining = <<>>
    /\ r_threshold = 0
    /\ r_rotate = FALSE
    /\ r_pc = "off"
    /\ r_round_idx = 0
    /\ r_invoked = FALSE
    /\ r_impersonate = FALSE

\* head of a round: the rotation trigger.  rotated is what
\* fetcher.rotate_credentials returns; on False rotate_impersonate is tried.
RotationCheck(rotated) ==
    /\ r_pc = "head"
    /\ r_round_idx < RetryRoundsR
    /\ r_remaining # <<>>
    /\ r_invoked' = (r_rotate /\ should_rotate_credentials(r_remaining, r_threshold))
    /\ r_impersonate' = (r_invoked' /\ ~rotated)
    /\ r_pc' = "round"
    /\ UNCHANGED <<r_remaining, r_threshold, r_rotate, r_round_idx>>
    /\ UNCHANGED <<crawlVars, listVars, moreVars>>

\* the round's process_batch: failed_again (round_failed) holds the entries that failed
\* again, each with the reason of this round
RunRound(failed_again) ==
    /\ r_pc = "round"
    /\ Len(failed_again) <= Len(r_remaining)
    /\ r_remaining' = failed_again
    /\ r_round_idx' = r_round_idx + 1
    /\ r_pc' = "head"
    /\ UNCHANGED <<r_threshold, r_rotate, r_invoked, r_impersonate>>
    /\ UNCHANGED <<crawlVars, listVars, moreVars>>

\* "if not remaining: break", or the rounds are used up
RoundsReturn ==
    /\ r_pc = "head"
    /\ ~(r_round_idx < RetryRoundsR /\ r_remaining # <<>>)
    /\ r_pc' = "returned"
    /\ UNCHANGED <<r_remaining, r_threshold, r_rotate, r_round_idx,
                   r_invoked, r_impersonate>>
    /\ UNCHANGED <<crawlVars, listVars, moreVars>>

\* ============================== round concurrency and the semaphore (SpecConc)
MaxConcurrency == 24
MaxOverride == 2
MaxBatchTasks == 3

\* the halving counted from round_idx instead of round_num
RoundConcurrencyFromRoundIdx(concurrency, retry_concurrency, round_num) ==
    IF retry_concurrency > 0 THEN retry_concurrency
    ELSE Max2(1, concurrency \div (2 ^ (round_num - 1)))

\* retry_failed_rounds: round_concurrency of round round_num = round_idx + 1
round_concurrency(concurrency, retry_concurrency, round_num) ==
    IF retry_concurrency > 0 THEN retry_concurrency
    ELSE Max2(1, concurrency \div (2 ^ round_num))

\* a semaphore one slot wider than asked
SemaphoreOneTooWide(concurrency) == Max2(1, concurrency) + 1

\* process_batch: sem = asyncio.Semaphore(max(1, concurrency))
SemaphoreWidth(concurrency) == Max2(1, concurrency)

Inside == {i \in DOMAIN c_task : c_task[i] = "inside"}

ConcInit ==
    /\ c_concurrency \in 0..MaxConcurrency
    /\ c_retry_concurrency \in 0..MaxOverride
    /\ c_round = 0
    /\ c_width = 0
    /\ c_sem = 0
    /\ c_task = <<>>
    /\ c_pc = "head"

ConcIdle ==
    /\ c_concurrency = 0
    /\ c_retry_concurrency = 0
    /\ c_round = 0
    /\ c_width = 0
    /\ c_sem = 0
    /\ c_task = <<>>
    /\ c_pc = "off"

\* process_batch is called for n listings (first pass: concurrency; retry
\* round: round_concurrency), creates the semaphore and one task per listing
ProcessBatchStart(n) ==
    /\ c_pc \in {"head", "rotated"}
    /\ LET width == IF c_round = 0 THEN c_concurrency
                    ELSE round_concurrency(c_concurrency, c_retry_concurrency,
                                           c_round)
       IN  /\ c_width' = width
           /\ c_sem' = SemaphoreWidth(width)
    /\ c_task' = [i \in 1..n |-> "waiting"]
    /\ c_pc' = "batch"
    /\ UNCHANGED <<c_concurrency, c_retry_concurrency, c_round>>
    /\ UNCHANGED <<baseVars, detailVars, credVars, laterVars>>

\* fetch_detail: "async with sem" entered
SemAcquire(i) ==
    /\ c_pc = "batch"
    /\ c_task[i] = "waiting"
    /\ c_sem > 0
    /\ c_sem' = c_sem - 1
    /\ c_task' = [c_task EXCEPT ![i] = "inside"]
    /\ UNCHANGED <<c_concurrency, c_retry_concurrency, c_round, c_width, c_pc>>
    /\ UNCHANGED <<baseVars, detailVars, credVars, laterVars>>

\* fetch_detail returns: "async with sem" left
SemRelease(i) ==
    /\ c_pc = "batch"
    /\ c_task[i] = "inside"
    /\ c_sem' = c_sem + 1
    /\ c_task' = [c_task EXCEPT ![i] = "done"]
    /\ UNCHANGED <<c_concurrency, c_retry_concurrency, c_round, c_width, c_pc>>
    /\ UNCHANGED <<baseVars, detailVars, credVars, laterVars>>

\* a loop over the tasks that ends with the first result
FirstConsumed(ts) == \E i \in DOMAIN ts : ts[i] = "done"

\* "for task in asyncio.as_completed(tasks): ... await task" has run to
\* its end: every task has returned
AllConsumed(ts) == \A i \in DOMAIN ts : ts[i] = "done"

\* retry_failed_rounds at the head of a round: rotate_credentials is set
\* and should_rotate_credentials holds, fetcher.rotate_credentials is awaited
RotationStart ==
    /\ c_pc = "head"
    /\ c_round >= 1
    /\ c_pc' = "rotating"
    /\ UNCHANGED <<c_concurrency, c_retry_concurrency, c_round, c_width,
                   c_sem, c_task>>
    /\ UNCHANGED <<baseVars, detailVars, credVars, laterVars>>

\* rotate_credentials, and rotate_impersonate after it, have returned
RotationDone ==
    /\ c_pc = "rotating"
    /\ c_pc' = "rotated"
    /\ UNCHANGED <<c_concurrency, c_retry_concurrency, c_round, c_width,
                   c_sem, c_task>>
    /\ UNCHANGED <<baseVars, detailVars, credVars, laterVars>>

\* the as_completed loop has consumed every task; the next round follows
\* unless the rounds are used up
ProcessBatchReturn ==
    /\ c_pc = "batch"
    /\ AllConsumed(c_task)
    /\ IF c_round < RetryRoundsR
       THEN c_round' = c_round + 1 /\ c_pc' = "head"
       ELSE c_pc' = "returned" /\ UNCHANGED c_round
    /\ UNCHANGED <<c_concurrency, c_retry_concurrency, c_width, c_sem, c_task>>
    /\ UNCHANGED <<baseVars, detailVars, credVars, laterVars>>

\* ======================================= fetch_detail results (SpecDetail)
\* what parse_detail_soup gives as detail["reference"]
References == {"", "REF"}

\* fetch_detail without the "if not detail.get('reference')" test
FetchDetailNoEmptyTest(f, raises, reference) ==
    IF ~f.ok \/ raises
    THEN [status |-> "error", reference |-> "",
          reason |-> IF f.ok THEN {"parse error"} ELSE f.err]
    ELSE [status |-> "ok", reference |-> reference, reason |-> {}]

\* fetch_detail: f is the result of fetcher.fetch, raises tells whether
\* make_soup / parse_detail_soup / build_model_from_detail raised
fetch_detail(f, raises, reference) ==
    IF ~f.ok \/ raises
    THEN [status |-> "error", reference |-> "",
          reason |-> IF f.ok THEN {"parse error"} ELSE f.err]
    ELSE IF reference = ""
    THEN [status |-> "empty", reference |-> "", reason |-> {"empty_reference"}]
    ELSE [status |-> "ok", reference |-> reference, reason |-> {}]

\* the results fetcher.fetch(full_url, allow_fallback=True) can have
DetailFetchResults ==
    {[ok |-> Fetch(resps, TRUE, pw).ok, err |-> Fetch(resps, TRUE, pw).err] :
        resps \in FetchAttempts, pw \in PlaywrightResults}

DetailInit ==
    /\ d_tasks \in {1..n : n \in 1..MaxBatchTasks}
    /\ d_models_by_idx = {}
    /\ d_failed = <<>>
    /\ d_seen = {}
    /\ d_pc = "loop"

DetailIdle ==
    /\ d_tasks = {}
    /\ d_models_by_idx = {}
    /\ d_failed = <<>>
    /\ d_seen = {}
    /\ d_pc = "off"

\* one iteration of "for task in asyncio.as_completed(tasks)"
\* (f: result of the fetch; raises, reference: what parsing does with the
\* page, which is reached only when the fetch returned one)
DetailTaskDone(idx, f, raises, reference) ==
    /\ d_pc = "loop"
    /\ idx \in d_tasks
    /\ ~f.ok => (~raises /\ reference = "")
    /\ LET r == fetch_detail(f, raises, reference)
       IN  /\ d_seen' = d_seen \cup {[idx |-> idx, fetched |-> f.ok,
                                     raised |-> raises, reference |-> reference]}
           /\ IF r.status = "ok"
              THEN /\ d_models_by_idx' = d_models_by_idx \cup
                                           {[idx |-> idx, reference |-> r.reference]}
                   /\ UNCHANGED d_failed
              ELSE /\ d_failed' = Append(d_failed, [idx |-> idx, reason |-> r.reason])
                   /\ UNCHANGED d_models_by_idx
    /\ d_tasks' = d_tasks \ {idx}
    /\ UNCHANGED d_pc
    /\ UNCHANGED <<baseVars, concVars, credVars, laterVars>>

\* return batch_models, failed_urls
DetailBatchReturn ==
    /\ d_pc = "loop"
    /\ d_tasks = {}
    /\ d_pc' = "returned"
    /\ UNCHANGED <<d_tasks, d_models_by_idx, d_failed, d_seen>>
    /\ UNCHANGED <<baseVars, concVars, credVars, laterVars>>

\* ============================================== credential/session manager
\* WatchChartsFetcher's credential state and the coroutines that touch it.
\* asyncio runs one coroutine at a time: an action is what a coroutine does
\* between two suspension points (a wait for a held lock or semaphore, or
\* an awaited browser or HTTP call).  Process 0 is the orchestrator, which
\* rotates between batches; 1..NumTasks are detail/price-history tasks.
Tasks == 1..NumTasks

Procs == 0..NumTasks

\* the clock advances by any of these amounts (seconds)
Delays == {30, REFRESH_MIN_INTERVAL, AC_FAIL_COOLDOWN}

\* time.monotonic() when the fetcher is constructed
StartTimes == {1000}

\* backend, use_anticaptcha, presence of the solver client, and the length
\* of the impersonation list, as __init__ leaves them
Configs ==
    { [backend |-> "curl",  ac_enabled |-> TRUE, ac |-> TRUE,  n_imp |-> 2],
      [backend |-> "httpx", ac_enabled |-> TRUE, ac |-> TRUE,  n_imp |-> 1],
      [backend |-> "curl",  ac_enabled |-> TRUE, ac |-> FALSE, n_imp |-> 1],
      [backend |-> "brightdata", ac_enabled |-> FALSE, ac |-> FALSE,
       n_imp |-> 1] }

\* WatchChartsFetcher.__init__ (cookies and ua name the solution they came
\* from, 0 for the defaults)
NewFetcher(cfg) ==
    [backend |-> cfg.backend, ac_enabled |-> cfg.ac_enabled, ac |-> cfg.ac,
     n_imp |-> cfg.n_imp,
     refresh_lock |-> 0, lock_q |-> <<>>,
     pw_sem |-> 0, pw_q |-> <<>>,
     last_refresh |-> 0,
     ac_failures |-> 0, ac_disable_until |-> 0,
     pw_failures |-> 0, pw_disable_until |-> 0,
     cookies |-> 0, ua |-> 0, impersonate |-> 0, pw |-> FALSE]

IdleTask == [op |-> "none", pc |-> "idle", now |-> 0, attempt |-> 0,
             challenged |-> FALSE, res |-> "none"]

NoWrite == [by |-> 0, lock |-> 0, field |-> "none"]

\* history of the last finished solve: the operation, what the CAPTCHA
\* solver signalled, the consecutive failures so far, and the cooldown
\* deadline that solve had to set (-1: none)
NoSolve == [op |-> "none", signal |-> "none", ok |-> FALSE, streak |-> 0,
            due |-> -1]

\* history of rotate_credentials: its calls, the calls that advanced the
\* impersonation profile, started the clearance flow or were refused it,
\* the advances made by rotate_impersonate, whether a call went on with
\* the browser session still there, and the profile before the last call
NoRotation == [calls |-> 0, advances |-> 0, flows |-> 0, refused |-> 0,
               extra |-> 0, kept_browser |-> FALSE, before |-> 0]

NewGhost == [write |-> NoWrite, prev_start |-> -1, last_start |-> -1,
             refused |-> FALSE, reopened |-> FALSE, nsol |-> 0, ticks |-> 0,
             track |-> FALSE, solve |-> NoSolve, rot |-> NoRotation]

\* track: the history of solves is kept (SpecSolve)
CredStart(track) ==
    /\ k_now \in StartTimes
    /\ \E cfg \in Configs, n \in {0, AC_FAIL_LIMIT - 1} :
           \* a new fetcher, or one that has counted failures already
           /\ k_f = [NewFetcher(cfg) EXCEPT !.ac_failures = n]
           /\ k_g = [NewGhost EXCEPT !.track = track,
                                     !.solve.streak = IF track THEN n ELSE 0]
    /\ k_task = [p \in Procs |-> IdleTask]
    /\ k_calls = 0

CredInit == CredStart(FALSE)

\* the credential variables when another specification runs
CredIdle ==
    /\ k_now = 0
    /\ k_f = NewFetcher([backend |-> "none", ac_enabled |-> FALSE,
                         ac |-> FALSE, n_imp |-> 1])
    /\ k_task = [p \in Procs |-> IdleTask]
    /\ k_g = NewGhost
    /\ k_calls = 0

\* _ac_disabled, with a cooldown check that never refuses
AcDisabledNever(f, now) == FALSE

\* _ac_disabled
ac_disabled(f, now) == f.ac_disable_until # 0 /\ now < f.ac_disable_until

\* _pw_disabled
pw_disabled(f, now) == f.pw_disable_until # 0 /\ now < f.pw_disable_until

\* _note_ac_failure; blocked: the message holds ERROR_IP_BLOCKED
note_ac_failure(f, now, blocked) ==
    LET n == f.ac_failures + 1
    IN  IF blocked
        THEN [f EXCEPT !.ac_disable_until = now + AC_BLOCK_COOLDOWN,
                       !.ac_failures = 0]
        ELSE IF n >= AC_FAIL_LIMIT /\ ~ac_disabled(f, now)
        THEN [f EXCEPT !.ac_disable_until = now + AC_FAIL_COOLDOWN,
                       !.ac_failures = 0]
        ELSE [f EXCEPT !.ac_failures = n]

\* _note_pw_failure
note_pw_failure(f, now) ==
    LET n == f.pw_failures + 1
    IN  IF n >= PW_FAIL_LIMIT /\ ~pw_disabled(f, now)
        THEN [f EXCEPT !.pw_disable_until = now + PW_COOLDOWN,
                       !.pw_failures = 0]
        ELSE [f EXCEPT !.pw_failures = n]

\* history: one more event of rotate_credentials (kept in SpecSolve)
Rotated(w, event) ==
    IF w.g.track THEN [w EXCEPT !.g.rot[event] = @ + 1] ELSE w

\* history: the profile a rotation trigger of the orchestrator starts with
TriggerStarts(w) ==
    IF w.g.track THEN [w EXCEPT !.g.rot.before = w.f.impersonate] ELSE w

\* A world is the fetcher, the coroutines and the history: [f, task, g].
\* The operators below run coroutine t from one point to its next
\* suspension and give the world it leaves.

\* "return res"
Return(w, t, res) == [w EXCEPT !.task[t] = [IdleTask EXCEPT !.res = res]]

\* history: t wrote credential state while refresh_lock was held by .lock
Wrote(w, t, field) ==
    [w EXCEPT !.g.write = [by |-> t, lock |-> w.f.refresh_lock,
                           field |-> field]]

\* exit of "async with self._refresh_lock"
ReleaseLock(w) == [w EXCEPT !.f.refresh_lock = 0]

\* exit of "async with self._pw_sem" (the _ac_sem inside it is only taken
\* by the holder of _pw_sem and is never contended)
ReleasePw(w) == [w EXCEPT !.f.pw_sem = 0]

\* _apply_solution: user agent and cookies of the solution
apply_solution(w, t) ==
    LET n == w.g.nsol + 1
    IN  Wrote([w EXCEPT !.f.cookies = n, !.f.ua = n, !.g.nsol = n],
              t, "cookies")

\* rotate_impersonate inside the lock: _next_impersonate and
\* _swap_curl_session
RotateImpersonateLocked(w, t) ==
    IF w.f.n_imp <= 1
    THEN Return(ReleaseLock(w), t, "false")
    ELSE LET next == (w.f.impersonate + 1) % w.f.n_imp
         IN  Return(ReleaseLock(Wrote(Rotated([w EXCEPT
                                                 !.f.impersonate = next],
                                              "extra"),
                                      t, "impersonate")), t, "true")

\* rotate_impersonate up to the lock
rotate_impersonate(w, t) ==
    IF w.f.backend # "curl"
    THEN Return(w, t, "false")
    ELSE IF w.f.refresh_lock = 0 /\ w.f.lock_q = <<>>
    THEN RotateImpersonateLocked([w EXCEPT !.f.refresh_lock = t], t)
    ELSE [w EXCEPT !.f.lock_q = Append(@, t),
                   !.task[t].op = "rotate_impersonate",
                   !.task[t].pc = "lock_wait"]

\* what the caller of _solve_challenge_with_playwright does with its
\* result (sol: a solution was returned)
AfterSolve(w, t, now, sol) ==
    CASE w.task[t].op = "refresh" ->
           IF sol
           THEN Return(ReleaseLock([apply_solution(w, t) EXCEPT
                           !.f.last_refresh = w.task[t].now]), t, "true")
           ELSE Return(ReleaseLock(w), t, "false")
      [] w.task[t].op = "rotate" ->
           IF sol
           THEN Return(ReleaseLock([apply_solution(w, t) EXCEPT
                           !.f.last_refresh = now,
                           !.f.ac_failures = 0]), t, "true")
           ELSE \* "if not rotated: rotated = await rotate_impersonate()"
                rotate_impersonate(ReleaseLock(w), t)
      [] OTHER ->
           \* solve_challenge
           IF sol
           THEN [apply_solution(w, t) EXCEPT !.task[t].pc = "content"]
           ELSE Return(w, t, "null")

\* inside _pw_sem: the browser session is created when there is none, and
\* the browser call is awaited
BrowserStart(w, t) ==
    LET w1 == IF w.f.pw THEN w ELSE Wrote([w EXCEPT !.f.pw = TRUE], t, "pw")
    IN  [w1 EXCEPT !.task[t].pc = "browser"]

\* "async with self._pw_sem"
AcquirePw(w, t) ==
    IF w.f.pw_sem = 0 /\ w.f.pw_q = <<>>
    THEN BrowserStart([w EXCEPT !.f.pw_sem = t], t)
    ELSE [w EXCEPT !.f.pw_q = Append(@, t), !.task[t].pc = "pw_wait"]

\* history: _refresh_cookies starts the browser flow at time now
NoteStart(w, t, now) ==
    IF w.task[t].op = "refresh"
    THEN [w EXCEPT !.g.prev_start = w.g.last_start, !.g.last_start = now]
    ELSE IF w.task[t].op = "rotate" THEN Rotated(w, "flows")
    ELSE w

\* _solve_challenge_with_playwright up to its first suspension
SolveWithPlaywright(w, t, now) ==
    IF ~w.f.ac \/ ac_disabled(w.f, now)
    THEN AfterSolve(IF w.task[t].op = "rotate" THEN Rotated(w, "refused")
                    ELSE w, t, now, FALSE)
    ELSE AcquirePw(NoteStart(w, t, now), t)

\* _refresh_cookies inside the lock without the interval check
RefreshUnthrottled(w, t, now) ==
    SolveWithPlaywright([w EXCEPT !.task[t].now = now], t, now)

\* _refresh_cookies inside the lock
RefreshLocked(w, t, now) ==
    IF now - w.f.last_refresh < REFRESH_MIN_INTERVAL
    THEN Return(ReleaseLock(w), t, "true")
    ELSE SolveWithPlaywright([w EXCEPT !.task[t].now = now], t, now)

\* rotate_credentials after the browser session is closed: the
\* impersonation profile advances, then the refresh flow runs
\* _swap_curl_session that keeps the profile
SwapToSameProfile(w, t) == Rotated(w, "advances")

\* _next_impersonate and _swap_curl_session with a list of several
\* profiles
SwapToNextProfile(w, t) ==
    Wrote(Rotated([w EXCEPT !.f.impersonate =
                                (w.f.impersonate + 1) % w.f.n_imp],
                  "advances"),
          t, "impersonate")

RotateSwap(w, t, now) ==
    LET w0 == IF w.g.track /\ w.f.pw
              THEN [w EXCEPT !.g.rot.kept_browser = TRUE] ELSE w
        w1 == IF w0.f.backend = "curl" /\ w0.f.n_imp > 1
              THEN SwapToNextProfile(w0, t)
              ELSE w0
    IN  SolveWithPlaywright(w1, t, now)

\* rotate_credentials(force_new_session=True) inside the lock
RotateLocked(w, t, now) ==
    IF w.f.pw
    THEN [w EXCEPT !.task[t].pc = "pw_close"]
    ELSE RotateSwap(w, t, now)

\* "async with self._refresh_lock": taken at once when it is free and
\* nobody waits, otherwise the coroutine queues
AcquireLock(w, t, now) ==
    IF w.f.refresh_lock = 0 /\ w.f.lock_q = <<>>
    THEN LET w1 == [w EXCEPT !.f.refresh_lock = t]
         IN  IF w.task[t].op = "refresh"
             THEN RefreshLocked(w1, t, now)
             ELSE RotateLocked(w1, t, now)
    ELSE [w EXCEPT !.f.lock_q = Append(@, t), !.task[t].pc = "lock_wait"]

World == [f |-> k_f, task |-> k_task, g |-> k_g]

Becomes(w) ==
    /\ k_f' = w.f
    /\ k_task' = w.task
    /\ k_g' = w.g

Called(w, t, op) == [w EXCEPT !.task[t] = [IdleTask EXCEPT !.op = op]]

\* a task may start a call: it is idle, and the orchestrator is inside
\* a batch (not rotating)
MayCall(t) ==
    /\ k_task[t].pc = "idle"
    /\ k_task[0].pc = "idle"
    /\ k_calls < MaxCalls
    /\ k_calls' = k_calls + 1
    /\ UNCHANGED k_now

\* _refresh_cookies, called by fetch_with_headers
RefreshCookies(t) ==
    /\ MayCall(t)
    /\ LET w == Called(World, t, "refresh")
       IN  IF k_f.backend = "brightdata"
           THEN Becomes(Return(w, t, "false"))
           ELSE IF ~k_f.ac_enabled \/ ac_disabled(k_f, k_now)
           THEN Becomes(Return([w EXCEPT !.g.refused =
                                   @ \/ ac_disabled(k_f, k_now)], t, "false"))
           ELSE Becomes(AcquireLock(
                          [w EXCEPT !.g.reopened =
                                      @ \/ k_f.ac_disable_until # 0],
                          t, k_now))
    /\ UNCHANGED <<baseVars, concVars, detailVars, laterVars>>

\* solve_challenge, called by fetch_price_history_for_model and
\* fetch_price_history
SolveChallenge(t) ==
    /\ MayCall(t)
    /\ LET w == Called(World, t, "solve")
       IN  IF ~k_f.ac \/ ac_disabled(k_f, k_now)
           THEN Becomes(Return(w, t, "null"))
           ELSE Becomes(SolveWithPlaywright(w, t, k_now))
    /\ UNCHANGED <<baseVars, concVars, detailVars, laterVars>>

\* fetch up to its first _get
FetchCall(t) ==
    /\ MayCall(t)
    /\ Becomes([Called(World, t, "fetch") EXCEPT !.task[t].pc = "get"])
    /\ UNCHANGED <<baseVars, concVars, detailVars, laterVars>>

\* rotate_credentials followed, when it returns False, by
\* rotate_impersonate: called by the orchestrator between two batches
RotateCredentials ==
    /\ \A p \in Procs : k_task[p].pc = "idle"
    /\ k_calls < MaxCalls
    /\ k_calls' = k_calls + 1
    /\ LET w == TriggerStarts(Rotated(Called(World, 0, "rotate"), "calls"))
       IN  IF k_f.backend = "brightdata"
           THEN Becomes(Return(w, 0, "false"))
           ELSE IF ~k_f.ac_enabled
           THEN Becomes(rotate_impersonate(w, 0))
           ELSE Becomes(AcquireLock(w, 0, k_now))
    /\ UNCHANGED <<k_now, baseVars, concVars, detailVars, laterVars>>

\* the first waiter of _refresh_lock is woken after a release
LockGranted(t) ==
    /\ k_task[t].pc = "lock_wait"
    /\ k_f.refresh_lock = 0
    /\ k_f.lock_q # <<>> /\ Head(k_f.lock_q) = t
    /\ LET w == [World EXCEPT !.f.refresh_lock = t,
                              !.f.lock_q = Tail(@)]
       IN  CASE k_task[t].op = "refresh" ->
                  Becomes(RefreshLocked(w, t, k_now))
             [] k_task[t].op = "rotate" ->
                  Becomes(RotateLocked(w, t, k_now))
             [] OTHER ->
                  Becomes(RotateImpersonateLocked(w, t))
    /\ UNCHANGED <<k_now, k_calls, baseVars, concVars, detailVars, laterVars>>

\* the first waiter of _pw_sem is woken after a release
PwGranted(t) ==
    /\ k_task[t].pc = "pw_wait"
    /\ k_f.pw_sem = 0
    /\ k_f.pw_q # <<>> /\ Head(k_f.pw_q) = t
    /\ Becomes(BrowserStart([World EXCEPT !.f.pw_sem = t,
                                          !.f.pw_q = Tail(@)], t))
    /\ UNCHANGED <<k_now, k_calls, baseVars, concVars, detailVars, laterVars>>

\* "await self._pw.close()" of rotate_credentials returns
PwClosed(t) ==
    /\ k_task[t].pc = "pw_close"
    /\ Becomes(RotateSwap(Wrote([World EXCEPT !.f.pw = FALSE], t, "pw"),
                          t, k_now))
    /\ UNCHANGED <<k_now, k_calls, baseVars, concVars, detailVars, laterVars>>

\* what the page does after goto: it shows no challenge, its challenge
\* clears by itself, or the challenge stays until a token is injected
Pages == {"plain", "clears", "challenge"}

\* what the CAPTCHA solver does when asked: a token that clears the
\* challenge, a token that does not, a generic error, the hard block
SolverResults == {"token", "rejected", "error", "ERROR_IP_BLOCKED"}

\* PlaywrightStealthClient._solve_captcha_if_present: True when a token
\* was obtained; an exception of the solver is printed and dropped
solve_captcha_if_present(has_solver, solver) ==
    has_solver /\ solver \in {"token", "rejected"}

\* PlaywrightStealthClient._wait_for_cloudflare
wait_for_cloudflare(page, has_solver, solver) ==
    IF page = "plain" THEN "html"
    ELSE IF page = "clears" THEN "html with cf_clearance"
    ELSE IF solve_captcha_if_present(has_solver, solver) /\ solver = "token"
    THEN "html with cf_clearance"
    ELSE "Cloudflare challenge not resolved within timeout"

\* PlaywrightStealthClient.get: the page, or the message of the exception
PwGet(goto_ok, page, has_solver, solver) ==
    IF ~goto_ok THEN "goto failed"
    ELSE wait_for_cloudflare(page, has_solver, solver)

PwExceptions == {"goto failed",
                 "Cloudflare challenge not resolved within timeout"}

\* "ERROR_IP_BLOCKED" in message
IpBlockedIn(message) == message = "ERROR_IP_BLOCKED"

\* history of a solve that ended: the solver's signal when it was asked,
\* and the deadline the failure bookkeeping has to set
SolveNoted(g, op, now, cooling, asked, solver, r) ==
    LET failed == r \in PwExceptions
        n      == IF r = "html with cf_clearance" THEN 0
                  ELSE IF failed THEN g.solve.streak + 1
                  ELSE g.solve.streak
        hard   == asked /\ solver = "ERROR_IP_BLOCKED"
        third  == failed /\ n >= AC_FAIL_LIMIT /\ ~cooling
    IN  IF ~g.track THEN g ELSE
        [g EXCEPT !.solve =
            [op |-> op, ok |-> r = "html with cf_clearance",
             signal |-> IF asked THEN solver
                        ELSE IF failed THEN "error" ELSE "none",
             streak |-> IF hard \/ third THEN 0 ELSE n,
             due |-> IF hard THEN now + AC_BLOCK_COOLDOWN
                     ELSE IF third THEN now + AC_FAIL_COOLDOWN
                     ELSE -1]]

\* the awaited browser call ends.  In _solve_challenge_with_playwright: a
\* page with the clearance cookie is a solution, a page without it gives
\* None, an exception is counted by _note_ac_failure; in
\* _fetch_via_playwright: a page, or an exception counted by
\* _note_pw_failure.
BrowserDone(t, goto_ok, page, solver) ==
    /\ k_task[t].pc = "browser"
    /\ LET asked == goto_ok /\ page = "challenge" /\ k_f.ac
           r     == PwGet(goto_ok, page, k_f.ac, solver)
       IN  \* inputs that are not consulted take one value
           /\ ~goto_ok => page = "plain"
           /\ ~asked => solver = "token"
           /\ IF k_task[t].op = "fetch"
              THEN LET f1 == IF r \in PwExceptions
                             THEN note_pw_failure(k_f, k_now)
                             ELSE [k_f EXCEPT !.pw_failures = 0]
                       w  == ReleasePw([World EXCEPT !.f = f1])
                   IN  Becomes(Return(w, t, IF r \in PwExceptions
                                            THEN "error" ELSE "html"))
              ELSE LET f1 == IF r \in PwExceptions
                             THEN note_ac_failure(k_f, k_now, IpBlockedIn(r))
                             ELSE IF r = "html with cf_clearance"
                             THEN [k_f EXCEPT !.ac_failures = 0]
                             ELSE k_f
                       g1 == SolveNoted(k_g, k_task[t].op, k_now,
                                        ac_disabled(k_f, k_now), asked,
                                        solver, r)
                       w  == ReleasePw([World EXCEPT !.f = f1, !.g = g1])
                   IN  Becomes(AfterSolve(w, t, k_now,
                                          r = "html with cf_clearance"))
    /\ UNCHANGED <<k_now, k_calls, baseVars, concVars, detailVars, laterVars>>

\* "html = await self._pw.page.content()" of solve_challenge returns
ContentDone(t) ==
    /\ k_task[t].pc = "content"
    /\ Becomes(Return([World EXCEPT !.f.ac_failures = 0], t, "html"))
    /\ UNCHANGED <<k_now, k_calls, baseVars, concVars, detailVars, laterVars>>

GetOutcomes == {"ok", "challenge", "error"}

\* one "await self._get(url)" of fetch returns; after the last attempt a
\* challenged fetch falls back to _fetch_via_playwright
GetDone(t, outcome) ==
    /\ k_task[t].pc = "get"
    /\ LET w == [World EXCEPT !.task[t].challenged =
                                @ \/ outcome = "challenge"]
       IN  IF outcome = "ok"
           THEN Becomes(Return(w, t, "html"))
           ELSE IF k_task[t].attempt < FetchRetries
           THEN Becomes([w EXCEPT !.task[t].attempt = @ + 1])
           ELSE IF k_f.backend # "brightdata" /\ w.task[t].challenged
                   /\ ~pw_disabled(k_f, k_now)
           THEN Becomes(AcquirePw(w, t))
           ELSE Becomes(Return(w, t, "error"))
    /\ UNCHANGED <<k_now, k_calls, baseVars, concVars, detailVars, laterVars>>

\* time passes
Tick(d) ==
    /\ k_g.ticks < MaxTicks
    /\ k_now' = k_now + d
    /\ k_g' = [k_g EXCEPT !.ticks = @ + 1]
    /\ UNCHANGED <<k_f, k_task, k_calls, baseVars, concVars, detailVars, laterVars>>

\* ======================================================== request pacing
\* AsyncCurlImpersonateClient: the per-host rate limit and the concurrency
\* semaphore in front of every request.  All requests go to one host.
\* asyncio runs one coroutine at a time: an action is what a worker does
\* between two suspension points.
PaceWorkers == 1..NumWorkers

\* values of random.uniform(min_delay, max_delay), in whole seconds
MinWaits == DEFAULT_MIN_DELAY..DEFAULT_MAX_DELAY

\* max_concurrent of the client
MaxConcurrents == {1, 2}

\* AsyncCurlImpersonateClient.__init__ (rate_limit=True)
NewClient(max_concurrent) ==
    [semaphore |-> max_concurrent, sem_q |-> <<>>,
     lock |-> 0, lock_q |-> <<>>,
     last_request_time |-> 0]

IdleWorker == [pc |-> "idle", wake_at |-> 0]

\* history: the start times of the last two requests, and the number of
\* requests called so far
NoStarts == [prev_start |-> -1, last_start |-> -1, requests |-> 0,
             ticks |-> 0]

PaceInit ==
    /\ p_now = EpochNow
    /\ p_c \in {NewClient(n) : n \in MaxConcurrents}
    /\ p_w = [w \in PaceWorkers |-> IdleWorker]
    /\ p_g = NoStarts

\* the pacing variables when another specification runs
PaceIdle ==
    /\ p_now = 0
    /\ p_c = NewClient(0)
    /\ p_w = [w \in PaceWorkers |-> IdleWorker]
    /\ p_g = NoStarts

PaceWorld == [c |-> p_c, w |-> p_w, g |-> p_g]

PaceBecomes(x) ==
    /\ p_c' = x.c
    /\ p_w' = x.w
    /\ p_g' = x.g

\* "return await asyncio.to_thread(self._sync_client.get_status, ...)":
\* the request starts
RequestStart(x, w, now) ==
    [x EXCEPT !.w[w].pc = "request",
              !.g.prev_start = x.g.last_start,
              !.g.last_start = now]

\* get_status after _wait_for_rate_limit: "async with self._semaphore"
AcquireSemaphore(x, w, now) ==
    IF x.c.semaphore > 0 /\ x.c.sem_q = <<>>
    THEN RequestStart([x EXCEPT !.c.semaphore = @ - 1], w, now)
    ELSE [x EXCEPT !.c.sem_q = Append(@, w), !.w[w].pc = "sem_wait"]

\* _wait_for_rate_limit from the end of the sleep:
\* self._last_request_time[domain] = time.time(), and the lock is left
RateLimitPassed(x, w, now) ==
    AcquireSemaphore([x EXCEPT !.c.last_request_time = now,
                               !.c.lock = 0], w, now)

\* _wait_for_rate_limit inside the lock
RateLimitLocked(x, w, now, min_wait) ==
    LET elapsed == now - x.c.last_request_time
    IN  IF elapsed < min_wait
        THEN [x EXCEPT !.w[w] = [pc |-> "sleep",
                                 wake_at |-> now + (min_wait - elapsed)]]
        ELSE RateLimitPassed(x, w, now)

\* get_status up to its first suspension
PaceCall(w, min_wait) ==
    /\ p_w[w].pc = "idle"
    /\ p_g.requests < MaxRequests
    /\ LET x == [PaceWorld EXCEPT !.g.requests = @ + 1]
       IN  IF p_c.lock = 0 /\ p_c.lock_q = <<>>
           THEN PaceBecomes(RateLimitLocked([x EXCEPT !.c.lock = w],
                                            w, p_now, min_wait))
           ELSE PaceBecomes([x EXCEPT !.c.lock_q = Append(@, w),
                                      !.w[w].pc = "lock_wait"])
    /\ UNCHANGED <<p_now, notPace>>

\* the first waiter of self._lock is woken after a release
PaceLockGranted(w, min_wait) ==
    /\ p_w[w].pc = "lock_wait"
    /\ p_c.lock = 0
    /\ p_c.lock_q # <<>> /\ Head(p_c.lock_q) = w
    /\ PaceBecomes(RateLimitLocked([PaceWorld EXCEPT !.c.lock = w,
                                                     !.c.lock_q = Tail(@)],
                                   w, p_now, min_wait))
    /\ UNCHANGED <<p_now, notPace>>

\* "await asyncio.sleep(min_wait - elapsed)" returns
PaceWake(w) ==
    /\ p_w[w].pc = "sleep"
    /\ p_now >= p_w[w].wake_at
    /\ PaceBecomes(RateLimitPassed(PaceWorld, w, p_now))
    /\ UNCHANGED <<p_now, notPace>>

\* the first waiter of self._semaphore is woken after a release
PaceSemGranted(w) ==
    /\ p_w[w].pc = "sem_wait"
    /\ p_c.semaphore > 0
    /\ p_c.sem_q # <<>> /\ Head(p_c.sem_q) = w
    /\ PaceBecomes(RequestStart([PaceWorld EXCEPT !.c.semaphore = @ - 1,
                                                  !.c.sem_q = Tail(@)],
                                w, p_now))
    /\ UNCHANGED <<p_now, notPace>>

\* the request returns or raises (at the latest at its timeout); the
\* semaphore is left
PaceRequestDone(w) ==
    /\ p_w[w].pc = "request"
    /\ PaceBecomes([PaceWorld EXCEPT !.c.semaphore = @ + 1,
                                     !.w[w] = IdleWorker])
    /\ UNCHANGED <<p_now, notPace>>

\* one second passes
PaceTick ==
    /\ p_g.ticks < MaxPaceTicks
    /\ p_now' = p_now + 1
    /\ p_g' = [p_g EXCEPT !.ticks = @ + 1]
    /\ UNCHANGED <<p_c, p_w, notPace>>

\* ================================================ price-history sub-flow
\* fetch_price_history for one record: the chart request through
\* fetch_with_headers, and the fallbacks after it.  e_in is the fetcher
\* and the detail page, e_out the state of the call with the sequence of
\* the steps tried, e_pc the next step.

\* the fetchers: backend, use_anticaptcha, solver client, FlareSolverr
HistoryFetchers ==
    {[backend |-> "curl-impersonate", ac_enabled |-> TRUE, ac |-> TRUE,
      fs |-> TRUE],
     [backend |-> "curl-impersonate", ac_enabled |-> FALSE, ac |-> FALSE,
      fs |-> FALSE],
     [backend |-> "httpx", ac_enabled |-> TRUE, ac |-> TRUE, fs |-> TRUE],
     [backend |-> "httpx", ac_enabled |-> FALSE, ac |-> FALSE, fs |-> FALSE],
     [backend |-> "brightdata", ac_enabled |-> FALSE, ac |-> FALSE,
      fs |-> TRUE]}

\* the detail page: with or without "#priceHistoryChartTabContent" and
\* the CSRF token
DetailPages == {"chart", "no container", "no token"}

\* a body returned with status < 400 that is not a challenge page: JSON
\* with points, JSON that parses to no point, or not JSON
Texts == {"points", "no points", "not json"}

\* the other results of _get_with_headers
RequestFailures == {"challenge", "HTTP 403", "HTTP 404", "exception"}

\* fetch_via_flaresolverr: a history with points, a history object with
\* no point, JSON without series (None), or no usable answer (None)
FsResults == {"points", "empty history", "no series", "failed"}

\* _fetch_via_playwright_text and _fetch_json_via_playwright
PwResults == Texts \cup {"failed"}

\* fetch_with_headers: "needs_refresh" after a failed request
needs_refresh(r) == r \in {"challenge", "HTTP 403", "exception"}

NewHistoryCall ==
    [trace |-> <<>>, call |-> 1, attempt |-> 0,
     attempted_flaresolverr |-> FALSE, after |-> "none",
     result |-> "none", valid_json |-> FALSE, late |-> FALSE]

HistoryInit ==
    /\ e_in \in [fetcher : HistoryFetchers, page : DetailPages]
    /\ e_out = NewHistoryCall
    /\ e_pc = "start"

\* a step is tried: it is late when a fallback already yielded valid JSON
Tried(s, step) ==
    [s EXCEPT !.trace = Append(@, step), !.late = @ \/ s.valid_json]

Returned(s, result) == <<[s EXCEPT !.result = result], "done">>

\* fetch_price_history from "payload = decode_json_response(text)"
AfterText(s, text) ==
    IF text = "points"
    THEN Returned(s, "history")
    ELSE IF ~s.attempted_flaresolverr
         THEN <<[s EXCEPT !.after = text], "flaresolverr">>
         ELSE Returned(s, "None")

\* fetch_with_headers raises
FetchFailed(s, f) ==
    IF s.call = 1
    THEN <<[s EXCEPT !.after = "except"], "flaresolverr">>
    ELSE Returned(s, "None")

\* fetch_with_headers: the end of one round of the loop
NextAttempt(s, f) ==
    IF s.attempt < FetchRetries
    THEN <<[s EXCEPT !.attempt = @ + 1], "request">>
    ELSE FetchFailed(s, f)

HistoryBecomes(p) ==
    /\ e_out' = p[1]
    /\ e_pc' = p[2]
    /\ UNCHANGED <<e_in, notEval>>

\* fetch_price_history up to the chart request
HistoryStart ==
    /\ e_pc = "start"
    /\ HistoryBecomes(IF e_in.page = "chart"
                      THEN <<e_out, "request">>
                      ELSE Returned(e_out, "None"))

\* fetch_with_headers: "await self._get_with_headers(url, headers, ...)"
HistoryRequest(r) ==
    /\ e_pc = "request"
    /\ LET f == e_in.fetcher
           s == Tried(e_out, IF e_out.call = 1 THEN "request"
                             ELSE "request after solve")
           j == [s EXCEPT !.valid_json = @ \/ (s.call = 2 /\ r # "not json")]
       IN  HistoryBecomes(
             IF r \in Texts THEN AfterText(j, r)
             ELSE IF /\ f.backend # "brightdata"
                     /\ f.ac_enabled
                     /\ needs_refresh(r)
                  THEN <<s, "refresh">>
                  ELSE NextAttempt(s, f))

\* fetch_with_headers: "refreshed = await self._refresh_cookies()"
HistoryRefresh(refreshed) ==
    /\ e_pc = "refresh"
    /\ refreshed => e_in.fetcher.ac
    /\ LET s == Tried(e_out, "refresh")
       IN  HistoryBecomes(IF refreshed THEN <<s, "retry">>
                          ELSE NextAttempt(s, e_in.fetcher))

\* fetch_with_headers: the request after the refresh
HistoryRetry(r) ==
    /\ e_pc = "retry"
    /\ LET s == Tried(e_out, "retry")
           j == [s EXCEPT !.valid_json = @ \/ r \in {"points", "no points"}]
       IN  HistoryBecomes(IF r \in Texts THEN AfterText(j, r)
                          ELSE NextAttempt(s, e_in.fetcher))

\* fetch_price_history after FlareSolverr gave no history in the
\* "except" branch
AfterFlaresolverrFailed(s, f) ==
    IF f.backend \in {"brightdata", "curl-impersonate"}
    THEN <<s, "playwright">>
    ELSE IF f.ac THEN <<s, "solve">>
    ELSE Returned(s, "None")

\* "history = await fetch_via_flaresolverr()" and what follows it
HistoryFlaresolverr(r) ==
    /\ e_pc = "flaresolverr"
    /\ ~e_in.fetcher.fs => r = "failed"
    /\ LET a == [e_out EXCEPT !.attempted_flaresolverr = TRUE]
           s == IF e_in.fetcher.fs THEN Tried(a, "flaresolverr") ELSE a
           j == [s EXCEPT !.valid_json = @ \/ r # "failed"]
       IN  HistoryBecomes(
             IF r = "points" THEN Returned(j, "history")
             ELSE IF r = "empty history" THEN Returned(j, "empty history")
             ELSE IF s.after = "except"
                  THEN AfterFlaresolverrFailed(j, e_in.fetcher)
                  ELSE Returned(j, "None"))

\* the branch of the backends "brightdata" and "curl-impersonate":
\* _fetch_via_playwright_text, then _fetch_json_via_playwright
HistoryPlaywright(r) ==
    /\ e_pc = "playwright"
    /\ LET s == Tried(e_out, "playwright")
           j == [s EXCEPT !.valid_json = @ \/ r \in {"points", "no points"}]
       IN  HistoryBecomes(IF r = "failed" THEN Returned(s, "None")
                          ELSE AfterText(j, r))

\* the branch "elif fetcher._ac": solve_challenge, then fetch_with_headers
\* again
HistorySolve(refreshed) ==
    /\ e_pc = "solve"
    /\ LET s == Tried(e_out, "solve")
       IN  HistoryBecomes(IF refreshed
                          THEN <<[s EXCEPT !.call = 2, !.attempt = 0],
                                 "request">>
                          ELSE Returned(s, "None"))

\* ============================================ price-history-only mode
\* crawl_watchcharts_async with include_price_history and
\* price_history_only: the loop over the records of the output file that
\* have no history.  e_in
\* is the run (detail page of every record, batch size), e_out the state
\* of the loop.
HistoryIds == 1..NumHistoryModels

\* what the detail page of a record leads to when its requests succeed:
\* a history with points, no chart container or token, or a payload
\* without points
HistoryPages == {"points", "no container", "zero points"}

BatchSizes == 1..NumHistoryModels

\* fetch_price_history_task: status of the task for a page, "error" when
\* fetch_price_history_for_model raises
TaskStatus(page, raised) ==
    IF raised THEN "error"
    ELSE IF page = "points" THEN "ok"
    ELSE "empty"

\* fetch_price_history_task: the reason returned with the status
TaskReason(status) ==
    IF status = "empty" THEN "no_history"
    ELSE IF status = "error" THEN "exception"
    ELSE "None"

BackfillInit ==
    /\ e_in \in [page : [HistoryIds -> HistoryPages],
                 batch_size : BatchSizes]
    /\ e_out = [pending |-> [i \in 1..NumHistoryModels |-> i],
                attempts |-> [m \in HistoryIds |-> 0],
                batch |-> <<>>, finished |-> {}, batch_failed |-> <<>>,
                with_history |-> {}, failed_urls |-> <<>>,
                output |-> {}, failed_history |-> <<>>,
                fetched |-> [m \in HistoryIds |-> 0], raised |-> {}]
    /\ e_pc = "loop"

\* "while pending": the next batch is cut and its tasks are created
BackfillBatchBegin ==
    /\ e_pc = "loop"
    /\ e_out.pending # <<>>
    /\ LET n == Min2(e_in.batch_size, Len(e_out.pending))
       IN  e_out' = [e_out EXCEPT !.batch = SubSeq(e_out.pending, 1, n),
                                  !.pending = SubSeq(@, n + 1, Len(@)),
                                  !.finished = {},
                                  !.batch_failed = <<>>]
    /\ e_pc' = "batch"
    /\ UNCHANGED <<e_in, notEval>>

\* process_price_history_batch: one round of "for task in
\* asyncio.as_completed(tasks)"
HistoryTaskDone(k, raised) ==
    /\ e_pc = "batch"
    /\ k \in 1..Len(e_out.batch)
    /\ k \notin e_out.finished
    /\ LET m == e_out.batch[k]
           status == TaskStatus(e_in.page[m], raised)
           entry == [watchcharts_id |-> m, reason |-> TaskReason(status)]
       IN  e_out' = [e_out EXCEPT
               !.finished = @ \cup {k},
               !.fetched[m] = @ + 1,
               !.raised = IF raised THEN @ \cup {m} ELSE @,
               !.with_history = IF status = "ok" THEN @ \cup {m} ELSE @,
               !.batch_failed = IF status = "ok" THEN @
                                ELSE Append(@, entry)]
    /\ UNCHANGED <<e_in, e_pc, notEval>>

\* a test that queues a record once more
MayQueueOnceMore(a) == a <= RetryRounds + 1

\* "if attempts[watch_id] <= retry_rounds"
MayQueue(a) == a <= RetryRounds

\* "for entry in batch_failed": the entries from position i on
RECURSIVE QueueFailed(_, _, _)
QueueFailed(s, entries, i) ==
    IF i > Len(entries) THEN s
    ELSE LET w == entries[i].watchcharts_id
             a == s.attempts[w] + 1
             t == [s EXCEPT !.attempts[w] = a]
         IN  QueueFailed(IF MayQueue(a)
                         THEN [t EXCEPT !.pending = Append(@, w)]
                         ELSE [t EXCEPT !.failed_urls =
                                            Append(@, entries[i])],
                         entries, i + 1)

\* the loop body after process_price_history_batch returned: failures
\* are queued or recorded, the output file is written
BackfillBatchEnd ==
    /\ e_pc = "batch"
    /\ e_out.finished = 1..Len(e_out.batch)
    /\ LET s == QueueFailed(e_out, e_out.batch_failed, 1)
       IN  e_out' = [s EXCEPT !.output = s.with_history]
    /\ e_pc' = "loop"
    /\ UNCHANGED <<e_in, notEval>>

\* after the loop: "<brand>_failed_history.json" is written when there
\* are failures, and the catalog is returned
BackfillReturn ==
    /\ e_pc = "loop"
    /\ e_out.pending = <<>>
    /\ e_out' = [e_out EXCEPT !.failed_history = e_out.failed_urls]
    /\ e_pc' = "done"
    /\ UNCHANGED <<e_in, notEval>>

\* ============================================== price-history payload
\* parse_price_history_payload on the "data" object of a payload.  A
\* series is a function from keys to prices; an Optional value is the
\* empty set (None) or a singleton.

\* keys of a series as the JSON decoder delivers them: strings
SeriesKeys == {"100", "200", "0100", "x"}

Prices == {45, 50}

\* the series with at most MaxSeriesKeys keys
SeriesSet ==
    UNION {[D -> Prices] :
             D \in {K \in SUBSET SeriesKeys : Cardinality(K) <= MaxSeriesKeys}}

\* safe_int: int(value), None when int() raises
safe_int(value) ==
    IF value \in {"100", "0100"} THEN {100}
    ELSE IF value = "200" THEN {200}
    ELSE {}

\* str(ts) for the timestamps of SeriesKeys
Str(ts) == IF ts = 100 THEN "100" ELSE "200"

\* coerce_float on None and on the numbers of Prices
coerce_float(value) == value

\* get_series_value: series.get(ts) when the integer is a key, which no
\* key of a decoded JSON object is, else series.get(str(ts))
get_series_value(series, ts) ==
    IF Str(ts) \in DOMAIN series THEN {series[Str(ts)]} ELSE {}

\* get_series_value looking for any key that safe_int maps to ts
GetByInteger(series, ts) ==
    {series[k] : k \in {x \in DOMAIN series : safe_int(x) = {ts}}}

\* "timestamps = sorted(set(timestamps))"
Timestamps(data) ==
    SortedSeq(UNION {safe_int(k) : k \in DOMAIN data.all \cup
                                         DOMAIN data.min \cup
                                         DOMAIN data.max})

parse_price_history_payload(data) ==
    IF DOMAIN data.all = {} /\ DOMAIN data.min = {} /\ DOMAIN data.max = {}
    THEN [history |-> FALSE, points |-> <<>>]
    ELSE LET timestamps == Timestamps(data)
         IN  [history |-> TRUE,
              points |->
                [i \in 1..Len(timestamps) |->
                   [timestamp |-> timestamps[i],
                    price |-> coerce_float(
                        get_series_value(data.all, timestamps[i])),
                    min_price |-> coerce_float(
                        get_series_value(data.min, timestamps[i])),
                    max_price |-> coerce_float(
                        get_series_value(data.max, timestamps[i]))]]]

ParseInit ==
    /\ e_in \in [all : SeriesSet, min : SeriesSet, max : SeriesSet]
    /\ e_out = [history |-> FALSE, points |-> <<>>]
    /\ e_pc = "payload"

\* one call of parse_price_history_payload
ParsePayload ==
    /\ e_pc = "payload"
    /\ e_out' = parse_price_history_payload(e_in)
    /\ e_pc' = "parsed"
    /\ UNCHANGED <<e_in, notEval>>

\* ======================================================= request timeouts
\* One detail fetch whose requests fail or exceed the timeout of the
\* backend, through WatchChartsFetcher.fetch, the failure entry and the
\* retry rounds.  e_in is the fetcher, e_out the state of the fetch.
TimeoutBackends == {"curl-impersonate", "curl", "httpx", "brightdata"}

\* the "concurrency" argument of the fetcher
Concurrencies == 0..MaxFetcherConcurrency

\* str(exc) of the timeout exception of curl_cffi or httpx, which fetch
\* passes on as it is: a text with the substring "timeout" or without it
LibraryTimeoutTexts == {{"timeout"}, {}}

\* the substrings classify_failure looks for in the text of the timeout
\* exception of a backend; CurlImpersonateClient.get_status raises
\* "curl-impersonate timeout after <n>s"
TimeoutText(fetcher) ==
    IF fetcher.backend = "curl-impersonate" THEN {"timeout"}
    ELSE fetcher.library_text

\* what a request gives in this specification
TimeoutOutcomes == {"page", "HTTP 500", "timeout"}

TimeoutInit ==
    /\ e_in \in [backend : TimeoutBackends, concurrency : Concurrencies,
                 library_text : LibraryTimeoutTexts]
    /\ e_out = [semaphore |-> e_in.concurrency, attempt |-> 0,
                last_error |-> {}, last |-> "none", reason |-> {},
                round |-> 0]
    /\ e_pc = "get"

\* _get up to the request: AsyncCurlImpersonateClient.get_status enters
\* "async with self._semaphore", the other backends have no semaphore
TimeoutGet ==
    /\ e_pc = "get"
    /\ IF e_in.backend # "curl-impersonate"
       THEN e_pc' = "request" /\ e_out' = e_out
       ELSE IF e_out.semaphore > 0
            THEN /\ e_pc' = "request"
                 /\ e_out' = [e_out EXCEPT !.semaphore = @ - 1]
            ELSE e_pc' = "semaphore" /\ e_out' = e_out
    /\ UNCHANGED <<e_in, notEval>>

\* the request returns or raises, at the latest at the timeout; fetch
\* goes on with the next attempt or raises "Failed after ... attempts:
\* {last_error}", which fetch_detail_task turns into a failure entry
TimeoutRequest(r) ==
    /\ e_pc = "request"
    /\ LET s == [e_out EXCEPT
                   !.semaphore = IF e_in.backend = "curl-impersonate"
                                 THEN @ + 1 ELSE @,
                   !.last = r,
                   !.last_error = IF r = "timeout" THEN TimeoutText(e_in)
                                  ELSE IF r = "page" THEN {}
                                  ELSE {HttpToken(500)}]
       IN  IF r = "page"
           THEN e_out' = s /\ e_pc' = "ok"
           ELSE IF s.attempt < FetchRetries
           THEN e_out' = [s EXCEPT !.attempt = @ + 1] /\ e_pc' = "get"
           ELSE e_out' = [s EXCEPT !.reason = s.last_error]
                /\ e_pc' = "failed"
    /\ UNCHANGED <<e_in, notEval>>

\* retry_failed_rounds: every remaining failure is fetched again in the
\* next round, whatever its reason; after the last round it stays failed
TimeoutRetryRound ==
    /\ e_pc = "failed"
    /\ IF e_out.round < RetryRounds
       THEN /\ e_out' = [e_out EXCEPT !.round = @ + 1, !.attempt = 0]
            /\ e_pc' = "get"
       ELSE e_out' = e_out /\ e_pc' = "recorded"
    /\ UNCHANGED <<e_in, notEval>>

\* ==================================================== clearance wait
\* One call of PlaywrightStealthClient._wait_for_cloudflare, one action per
\* await of its loop.  e_in is the client and the ceiling of the wait,
\* e_out the locals of the call with the count of the solver calls.
CfWaits == 0..MaxCfWait

\* what one look at the page finds: the clearance cookie, a page without
\* challenge markers, a challenge without a widget the detectors know, a
\* challenge with a Turnstile or CAPTCHA widget
PageLooks == {"cf_clearance", "clean", "markers", "widget"}

\* seconds the solver collaborator takes to answer
SolveSeconds == 0..MaxSolveSeconds

\* time read by the loop condition, kept at the ceiling once it is passed
Elapsed(s, seconds) == [s EXCEPT !.elapsed = Min2(@ + seconds, e_in.max_wait)]

WaitInit ==
    /\ e_in \in [anti_captcha : BOOLEAN, max_wait : CfWaits]
    /\ e_out = [elapsed |-> 0, attempted_captcha |-> FALSE, solves |-> 0]
    /\ e_pc = "w_loop"

\* the loop condition and the body up to the next await that takes time
WaitPoll(look) ==
    /\ e_pc = "w_loop"
    /\ IF ~(e_out.elapsed < e_in.max_wait)
       THEN e_pc' = "w_raised" /\ e_out' = e_out
       ELSE IF look \in {"cf_clearance", "clean"}
       THEN e_pc' = "w_returned" /\ e_out' = e_out
       ELSE IF e_in.anti_captcha /\ ~e_out.attempted_captcha
                 /\ look = "widget"
       THEN /\ e_pc' = "w_solve"
            /\ e_out' = [e_out EXCEPT !.solves = @ + 1]
       ELSE /\ e_pc' = "w_loop"
            /\ e_out' = Elapsed(e_out, POLL_SLEEP)
    /\ UNCHANGED <<e_in, notEval>>

\* _solve_captcha_if_present from the answer of the solver: a token is
\* injected and True returned, an exception is printed and False returned
WaitSolved(token, seconds) ==
    /\ e_pc = "w_solve"
    /\ e_pc' = "w_loop"
    /\ e_out' = IF token
                THEN Elapsed([e_out EXCEPT !.attempted_captcha = TRUE],
                             seconds + TOKEN_SETTLE + CAPTCHA_SLEEP)
                ELSE Elapsed(e_out, seconds + POLL_SLEEP)
    /\ UNCHANGED <<e_in, notEval>>

\* ================================================= fetch and its record
\* One detail task: WatchChartsFetcher.fetch over the responses of its
\* attempts and of the browser fallback, then the rest of fetch_detail.
\* e_in is what the collaborators give, e_out what fetch and the task return.
FetchBackends == {"curl", "brightdata"}

\* what fetch_price_history does inside fetch_detail: it returns a
\* history, returns None (no chart, fallbacks used up, invalid JSON), or
\* raises
SubFlowOutcomes == {"history", "none", "exception"}

\* the price-history block of fetch_detail without its try / except
SubFlowUncaught(include, sub) ==
    [raised |-> include /\ sub = "exception",
     history |-> IF include /\ sub = "history" THEN "history" ELSE "none"]

\* the price-history block of fetch_detail: "if include_price_history",
\* the exception of fetch_price_history is printed and dropped
SubFlow(include, sub) ==
    [raised |-> FALSE,
     history |-> IF include /\ sub = "history" THEN "history" ELSE "none"]

\* fetch_detail with the price-history block: the block runs after the
\* page was fetched and parsed, and what it raises reaches the outer
\* "except Exception"
FetchDetailWithHistory(f, in) ==
    LET plain == fetch_detail(f, in.raises, in.reference)
        sub   == SubFlow(in.include_price_history, in.sub)
    IN  IF plain.status = "error"
        THEN [status |-> "error", reference |-> "", reason |-> plain.reason,
              history |-> "none"]
        ELSE IF sub.raised
        THEN [status |-> "error", reference |-> "",
              reason |-> {"price history"}, history |-> "none"]
        ELSE [status |-> plain.status, reference |-> plain.reference,
              reason |-> plain.reason,
              history |-> IF plain.status = "ok" THEN sub.history
                          ELSE "none"]

FetchInit ==
    /\ e_in \in [backend : FetchBackends, resps : FetchAttempts,
                 allow_fallback : BOOLEAN, pw : PlaywrightResults,
                 raises : BOOLEAN, reference : References,
                 include_price_history : BOOLEAN, sub : SubFlowOutcomes]
    \* the sub-flow has an outcome only when it is asked for
    /\ ~e_in.include_price_history => e_in.sub = "none"
    /\ e_out = [fetch |-> [ok |-> FALSE, used |-> 0, err |-> {}],
                detail |-> [status |-> "none", reference |-> "",
                            reason |-> {}, history |-> "none"]]
    /\ e_pc = "fetch"

\* fetch: "if self._backend == 'brightdata': allow_fallback = False"
FetchOf(in) ==
    Fetch(in.resps, in.allow_fallback /\ in.backend # "brightdata", in.pw)

\* the whole "async with sem" block of fetch_detail
FetchDetailTask ==
    /\ e_pc = "fetch"
    /\ e_out' = [fetch |-> FetchOf(e_in),
                 detail |-> FetchDetailWithHistory(FetchOf(e_in), e_in)]
    /\ e_pc' = "fetched"
    /\ UNCHANGED <<e_in, notEval>>

\* ======================================================= fetcher locks
\* The detail tasks of one process_batch call and the locks they take: the
\* semaphore of process_batch, then inside fetch_detail the operations of
\* the fetcher, each an "async with" nest around awaited collaborator
\* calls.  e_in is the width of the semaphores, e_out the tasks.
LockTasks == 1..NumLockTasks

\* the operations of the fetcher that take a lock: _refresh_cookies up to
\* the browser flow, _refresh_cookies returning inside the minimum
\* interval, solve_challenge / _solve_and_fetch, _fetch_via_playwright /
\* _fetch_via_playwright_text / _fetch_json_via_playwright,
\* _fetch_via_flaresolverr
LockOps == {"refresh", "throttled", "solve", "browser", "flaresolverr"}

\* _solve_challenge_with_playwright taking _ac_sem before _pw_sem when it
\* is called by solve_challenge
OpLocksSolverFirst(op) ==
    CASE op = "refresh" -> <<"refresh_lock", "pw_sem", "ac_sem">>
      [] op = "throttled" -> <<"refresh_lock">>
      [] op = "solve" -> <<"ac_sem", "pw_sem">>
      [] op = "browser" -> <<"pw_sem">>
      [] OTHER -> <<"fs_sem", "fs_lock">>

\* the locks an operation takes, in the order of its "async with" nest
OpLocks(op) ==
    CASE op = "refresh" -> <<"refresh_lock", "pw_sem", "ac_sem">>
      [] op = "throttled" -> <<"refresh_lock">>
      [] op = "solve" -> <<"pw_sem", "ac_sem">>
      [] op = "browser" -> <<"pw_sem">>
      [] OTHER -> <<"fs_sem", "fs_lock">>

\* the permits of a lock: asyncio.Semaphore(max(1, concurrency)) of
\* process_batch, asyncio.Semaphore(max(1, ac_concurrency)), and one
\* permit for every other lock
LockPermits(in, lock) ==
    CASE lock = "detail" -> SemaphoreWidth(in.concurrency)
      [] lock = "ac_sem" -> Max2(1, in.ac_concurrency)
      [] OTHER -> 1

\* the locks a task holds, outermost first
HeldLocks(tk) ==
    IF tk.pc = "l_run" THEN <<"detail">>
    ELSE IF tk.pc = "l_op"
    THEN <<"detail">> \o SubSeq(OpLocks(tk.op), 1, tk.held)
    ELSE <<>>

FreePermits(lock) ==
    LockPermits(e_in, lock)
        - Cardinality({t \in LockTasks :
                          \E i \in DOMAIN HeldLocks(e_out[t]) :
                              HeldLocks(e_out[t])[i] = lock})

LocksInit ==
    /\ e_in \in [concurrency : 0..MaxLockWidth,
                 ac_concurrency : 0..MaxLockWidth]
    /\ e_out = [t \in LockTasks |->
                  [pc |-> "l_wait", op |-> "none", held |-> 0,
                   left |-> MaxLockOps]]
    /\ e_pc = "locks"

\* fetch_detail: "async with sem" entered
LockEnter(t) ==
    /\ e_pc = "locks"
    /\ e_out[t].pc = "l_wait"
    /\ FreePermits("detail") > 0
    /\ e_out' = [e_out EXCEPT ![t].pc = "l_run"]
    /\ UNCHANGED <<e_in, e_pc, notEval>>

\* the task calls an operation of the fetcher
LockOpStart(t, op) ==
    /\ e_pc = "locks"
    /\ e_out[t].pc = "l_run"
    /\ e_out[t].left > 0
    /\ e_out' = [e_out EXCEPT ![t] = [pc |-> "l_op", op |-> op, held |-> 0,
                                      left |-> @.left - 1]]
    /\ UNCHANGED <<e_in, e_pc, notEval>>

\* the next "async with" of the operation is entered
LockAcquire(t) ==
    /\ e_pc = "locks"
    /\ e_out[t].pc = "l_op"
    /\ e_out[t].held < Len(OpLocks(e_out[t].op))
    /\ FreePermits(OpLocks(e_out[t].op)[e_out[t].held + 1]) > 0
    /\ e_out' = [e_out EXCEPT ![t].held = @ + 1]
    /\ UNCHANGED <<e_in, e_pc, notEval>>

\* the collaborator calls inside the nest have returned or raised, every
\* "async with" of the operation is left
LockOpEnd(t) ==
    /\ e_pc = "locks"
    /\ e_out[t].pc = "l_op"
    /\ e_out[t].held = Len(OpLocks(e_out[t].op))
    /\ e_out' = [e_out EXCEPT ![t].pc = "l_run", ![t].op = "none",
                              ![t].held = 0]
    /\ UNCHANGED <<e_in, e_pc, notEval>>

\* fetch_detail returns: "async with sem" left
LockLeave(t) ==
    /\ e_pc = "locks"
    /\ e_out[t].pc = "l_run"
    /\ e_out' = [e_out EXCEPT ![t].pc = "l_done"]
    /\ UNCHANGED <<e_in, e_pc, notEval>>

\* the variables of the evaluations when another specification runs
EvalIdle ==
    /\ e_in = "none"
    /\ e_out = "none"
    /\ e_pc = "idle"

LaterIdle == PaceIdle /\ EvalIdle

\* ======================================================== specifications
MoreIdle == ConcIdle /\ DetailIdle /\ CredIdle /\ LaterIdle

Init == CrawlInit /\ ListIdle /\ RetryIdle /\ MoreIdle

Next ==
    \/ \E res \in BOOLEAN, cfgOk \in BOOLEAN : StartCrawl(res, cfgOk)
    \/ \E o \in ListingOutcomes : Phase1(o)
    \/ SaveOpenCheckpoint
    \/ SaveDumpCheckpoint
    \/ SaveOpenListings
    \/ SaveDumpListings
    \/ SaveOpenFailed
    \/ SaveDumpFailed
    \/ BatchBegin
    \/ \E t \in tasks, o \in DetailOutcomes : TaskDone(t, o)
    \/ BatchCollect
    \/ RetryRoundBegin
    \/ RoundCollect
    \/ RetryReturn
    \/ LoopExit
    \/ OutputOpen
    \/ OutputDump
    \/ UnlinkCheckpoint
    \/ UnlinkListings
    \/ \E cfgOk \in BOOLEAN : runs < MaxRuns /\ StartRetryFailed(cfgOk)
    \/ RetryOpenFailed
    \/ RetryDumpFailed
    \/ Crash
    \/ Exit

Spec == Init /\ [][Next]_vars

\* One crawl (fresh, configuration valid, listing fetched), possibly killed,
\* followed by retry-failed invocations.
NextRetryFailed ==
    \/ runs = 0 /\ StartCrawl(FALSE, TRUE)
    \/ Phase1("ok")
    \/ SaveOpenCheckpoint
    \/ SaveDumpCheckpoint
    \/ SaveOpenListings
    \/ SaveDumpListings
    \/ SaveOpenFailed
    \/ SaveDumpFailed
    \/ BatchBegin
    \/ \E t \in tasks, o \in {"ok", "error"} : TaskDone(t, o)
    \/ BatchCollect
    \/ RetryRoundBegin
    \/ RoundCollect
    \/ RetryReturn
    \/ LoopExit
    \/ OutputOpen
    \/ OutputDump
    \/ UnlinkCheckpoint
    \/ UnlinkListings
    \/ runs > 0 /\ StartRetryFailed(TRUE)
    \/ RetryOpenFailed
    \/ RetryDumpFailed
    \/ Crash
    \/ Exit

\* sites whose listing names pairwise different models
DistinctSites == {[i \in 1..n |-> i] : n \in 0..MaxListing}

InitRetryFailed ==
    /\ site \in DistinctSites
    /\ CrawlRest
    /\ ListIdle /\ RetryIdle /\ MoreIdle

SpecRetryFailed == InitRetryFailed /\ [][NextRetryFailed]_vars

InitListing == CrawlIdle /\ ListInit /\ RetryIdle /\ MoreIdle

NextListing ==
    \E resps \in FetchAttempts, pw \in PlaywrightResults : ListingAttempt(resps, pw)

SpecListing == InitListing /\ [][NextListing]_vars

InitRetry == CrawlIdle /\ ListIdle /\ RetryInit /\ MoreIdle

NextRetry ==
    \/ \E rotated \in BOOLEAN : RotationCheck(rotated)
    \/ \E rf \in ReasonLists(MaxFailures) : RunRound(rf)
    \/ RoundsReturn

SpecRetry == InitRetry /\ [][NextRetry]_vars

InitConc ==
    /\ CrawlIdle /\ ListIdle /\ RetryIdle
    /\ ConcInit /\ DetailIdle /\ CredIdle /\ LaterIdle

NextConc ==
    \/ \E n \in 1..MaxBatchTasks : ProcessBatchStart(n)
    \/ \E i \in DOMAIN c_task : SemAcquire(i) \/ SemRelease(i)
    \/ ProcessBatchReturn
    \/ RotationStart
    \/ RotationDone

SpecConc == InitConc /\ [][NextConc]_vars

InitDetail ==
    /\ CrawlIdle /\ ListIdle /\ RetryIdle
    /\ ConcIdle /\ DetailInit /\ CredIdle /\ LaterIdle

NextDetail ==
    \/ \E idx \in 1..MaxBatchTasks, f \in DetailFetchResults,
          raises \in BOOLEAN, reference \in References :
          DetailTaskDone(idx, f, raises, reference)
    \/ DetailBatchReturn

SpecDetail == InitDetail /\ [][NextDetail]_vars

InitCred ==
    /\ CrawlIdle /\ ListIdle /\ RetryIdle
    /\ ConcIdle /\ DetailIdle /\ CredInit /\ LaterIdle

NextCred ==
    \/ \E t \in Tasks : RefreshCookies(t)
    \/ \E t \in Tasks : SolveChallenge(t)
    \/ \E t \in Tasks : FetchCall(t)
    \/ RotateCredentials
    \/ \E t \in Procs : LockGranted(t)
    \/ \E t \in Procs : PwGranted(t)
    \/ \E t \in Procs : PwClosed(t)
    \/ \E t \in Procs, g \in BOOLEAN, pg \in Pages, sv \in SolverResults :
          BrowserDone(t, g, pg, sv)
    \/ \E t \in Tasks : ContentDone(t)
    \/ \E t \in Tasks, o \in GetOutcomes : GetDone(t, o)
    \/ \E d \in Delays : Tick(d)

SpecCred == InitCred /\ [][NextCred]_vars

\* one coroutine at a time solving, refreshing and rotating, with the
\* history of its solves
InitSolve ==
    /\ CrawlIdle /\ ListIdle /\ RetryIdle /\ ConcIdle /\ DetailIdle
    /\ CredStart(TRUE) /\ LaterIdle

NextSolve ==
    \/ RefreshCookies(1)
    \/ SolveChallenge(1)
    \/ RotateCredentials
    \/ PwClosed(0)
    \/ \E t \in 0..1, g \in BOOLEAN, pg \in Pages, sv \in SolverResults :
          BrowserDone(t, g, pg, sv)
    \/ ContentDone(1)
    \/ \E d \in Delays : Tick(d)

SpecSolve == InitSolve /\ [][NextSolve]_vars

InitPace ==
    /\ CrawlIdle /\ ListIdle /\ RetryIdle
    /\ ConcIdle /\ DetailIdle /\ CredIdle
    /\ PaceInit /\ EvalIdle

NextPace ==
    \/ \E w \in PaceWorkers, m \in MinWaits : PaceCall(w, m)
    \/ \E w \in PaceWorkers, m \in MinWaits : PaceLockGranted(w, m)
    \/ \E w \in PaceWorkers : PaceWake(w)
    \/ \E w \in PaceWorkers : PaceSemGranted(w)
    \/ \E w \in PaceWorkers : PaceRequestDone(w)
    \/ PaceTick

SpecPace == InitPace /\ [][NextPace]_vars

InitHistory ==
    /\ CrawlIdle /\ ListIdle /\ RetryIdle
    /\ ConcIdle /\ DetailIdle /\ CredIdle
    /\ PaceIdle /\ HistoryInit

NextHistory ==
    \/ HistoryStart
    \/ \E r \in Texts \cup RequestFailures : HistoryRequest(r)
    \/ \E b \in BOOLEAN : HistoryRefresh(b)
    \/ \E r \in Texts \cup RequestFailures : HistoryRetry(r)
    \/ \E r \in FsResults : HistoryFlaresolverr(r)
    \/ \E r \in PwResults : HistoryPlaywright(r)
    \/ \E b \in BOOLEAN : HistorySolve(b)

SpecHistory == InitHistory /\ [][NextHistory]_vars

InitBackfill ==
    /\ CrawlIdle /\ ListIdle /\ RetryIdle
    /\ ConcIdle /\ DetailIdle /\ CredIdle
    /\ PaceIdle /\ BackfillInit

NextBackfill ==
    \/ BackfillBatchBegin
    \/ \E k \in HistoryIds, raised \in BOOLEAN : HistoryTaskDone(k, raised)
    \/ BackfillBatchEnd
    \/ BackfillReturn

SpecBackfill == InitBackfill /\ [][NextBackfill]_vars

\* every history task returns
FairBackfill == SpecBackfill /\ WF_vars(NextBackfill)

InitParse ==
    /\ CrawlIdle /\ ListIdle /\ RetryIdle
    /\ ConcIdle /\ DetailIdle /\ CredIdle
    /\ PaceIdle /\ ParseInit

NextParse == ParsePayload

SpecParse == InitParse /\ [][NextParse]_vars

InitTimeout ==
    /\ CrawlIdle /\ ListIdle /\ RetryIdle
    /\ ConcIdle /\ DetailIdle /\ CredIdle
    /\ PaceIdle /\ TimeoutInit

NextTimeout ==
    \/ TimeoutGet
    \/ \E r \in TimeoutOutcomes : TimeoutRequest(r)
    \/ TimeoutRetryRound

SpecTimeout == InitTimeout /\ [][NextTimeout]_vars

InitWait ==
    /\ CrawlIdle /\ ListIdle /\ RetryIdle
    /\ ConcIdle /\ DetailIdle /\ CredIdle
    /\ PaceIdle /\ WaitInit

NextWait ==
    \/ \E look \in PageLooks : WaitPoll(look)
    \/ \E token \in BOOLEAN, seconds \in SolveSeconds :
           WaitSolved(token, seconds)

SpecWait == InitWait /\ [][NextWait]_vars

\* every await of the wait returns or raises
FairWait == SpecWait /\ WF_vars(NextWait)

InitFetch ==
    /\ CrawlIdle /\ ListIdle /\ RetryIdle
    /\ ConcIdle /\ DetailIdle /\ CredIdle
    /\ PaceIdle /\ FetchInit

NextFetch == FetchDetailTask

SpecFetch == InitFetch /\ [][NextFetch]_vars

InitLocks ==
    /\ CrawlIdle /\ ListIdle /\ RetryIdle
    /\ ConcIdle /\ DetailIdle /\ CredIdle
    /\ PaceIdle /\ LocksInit

NextLocks ==
    \/ \E t \in LockTasks : LockEnter(t)
    \/ \E t \in LockTasks, op \in LockOps : LockOpStart(t, op)
    \/ \E t \in LockTasks : LockAcquire(t)
    \/ \E t \in LockTasks : LockOpEnd(t)
    \/ \E t \in LockTasks : LockLeave(t)

SpecLocks == InitLocks /\ [][NextLocks]_vars

\* every awaited call returns or raises, every free permit is handed out
FairLocks == SpecLocks /\ WF_vars(NextLocks)

\* ================================================================ claims
HasDuplicateId(s) == ~NoDup(s)

FailedIds(f) == {IdOf(f.failed[k].pos) : k \in DOMAIN f.failed}

\* C1: whatever runs came before, the models list of the output file never
\* holds two records with the same watchcharts_id.
C1_IdempotentReRun == outFile.st = "ok" => NoDup(outFile.models)

\* C1 witness: two crawls in a row, both complete, over a listing that
\* repeats an id; the second has just written the output file.
C1_Witness ==
    /\ pc = "done" /\ mode = "crawl"
    /\ completed = 2 /\ runs = 2 /\ crashes = 0
    /\ HasDuplicateId(site)
    /\ outFile.st = "ok" /\ outFile.models # <<>>

\* C2: every checkpoint write carries a processed_count that is at least
\* the one of the checkpoint it follows (the previous write of this run, or
\* the checkpoint a resumed run loaded), and a models list without a
\* repeated watchcharts_id.
C2_CheckpointInvariant ==
    [][(ckptFile' # ckptFile /\ ckptFile'.st = "ok")
          => /\ ckptFile'.processed_count >= lastCount
             /\ NoDup(ckptFile'.models)]_vars

\* C2 witness: a resumed run that loaded a checkpoint with a positive
\* processed_count has written a checkpoint of its own after a batch.
C2_Witness ==
    /\ pc = "ls_open" /\ resume /\ save_failed
    /\ resumedFrom.st = "ok" /\ resumedFrom.processed_count > 0
    /\ ckptFile.st = "ok" /\ ckptFile.models # <<>>

Phase2Pcs == {"batch", "tasks", "rtasks", "retry", "out_open", "out_dump",
              "unlink_ckpt", "unlink_cache", "done"} \cup SavePcs

\* C3 (stated as in the specification; violated by the code).  Checkpoint
\* monotonicity under crash: when the process is killed after save_checkpoint
\* has returned for a batch (and not while the output file is written), a
\* following run with resume=True does not fail on an unreadable file,
\* starts Phase 2 at an offset that is at least that checkpoint's
\* processed_count, and writes an output file holding every id of that
\* checkpoint's models.
C3_CheckpointMonotoneUnderCrash ==
    (mode = "crawl" /\ resume /\ crashCkpt.st = "ok" /\ ~Unreadable(outFile)) =>
        /\ ~(pc = "aborted" /\ abortCause = "corrupt_file")
        /\ pc \in Phase2Pcs => start_index >= crashCkpt.processed_count
        /\ pc = "done" => /\ outFile.st = "ok"
                          /\ IdsOf(crashCkpt.models) \subseteq IdsOf(outFile.models)

\* C4: in a crawl, detail tasks in flight all belong to the current batch;
\* they exist only when the checkpoints of all earlier batches have been
\* written; save_checkpoint runs with no task in flight and after the retry
\* rounds are over; and at the head of the batch loop exactly one
\* checkpoint has been written per batch processed.
C4_CheckpointPerBatch ==
    mode = "crawl" =>
        /\ \A t \in tasks : t.batchNo = batchNo
        /\ tasks # {} => savedBatches = batchNo - 1
        /\ (pc \in SavePcs /\ save_failed) =>
              /\ tasks = {}
              /\ savedBatches = batchNo - 1
              /\ remaining = <<>> \/ round_idx = RetryRounds \/ RetryRounds = 0
        /\ pc \in {"batch", "out_open"} => savedBatches = batchNo

\* C4 witness: the tasks of the second batch are in flight after the first
\* batch went through a retry round and its checkpoint.
C4_Witness ==
    /\ mode = "crawl" /\ pc = "tasks"
    /\ batchNo = 2 /\ savedBatches = 1 /\ tasks # {}
    /\ failed_urls # <<>>

\* C5: no crash leaves the checkpoint file, the listing cache and the
\* failed-entries file in a state that is neither what they were when
\* save_checkpoint was entered nor what it leaves when it returns.
C5_AtomicCheckpointOverwrite == ~torn

\* C6: when a crawl completes, every watchcharts_id whose detail fetch was
\* attempted in this or an earlier run is in the output file's models or in
\* the failed-entries file.
C6_FailuresNeverDropped ==
    (pc = "done" /\ mode = "crawl") =>
        \A id \in attempted :
            \/ id \in IdsOf(outFile.models)
            \/ failedFile.st = "ok" /\ id \in FailedIds(failedFile)

\* C7: a failing listing-page fetch never ends the run with an exception.
C7_FetchErrorsNotFatal == ~(pc = "aborted" /\ abortCause = "listing_fetch")


\* C8 (stated as in the specification; violated by the code).  Terminal-status
\* short-circuit: when every response of a listing page fetch carried status
\* 400, 404 or 410 and the fetch failed, pagination stops with the entries of
\* the earlier pages kept and without raising, no listing retry is consumed,
\* and no credential rotation is triggered for the failure.
C8_TerminalShortCircuit ==
    [][(l_failed' /\ l_allTerminal') =>
          /\ l_pc' = "returned"
          /\ l_all' = l_all
          /\ l_attempt' = l_attempt
          /\ ~l_rotated']_vars

\* C9 (stated as in the specification; violated by the code).  Terminal status
\* has priority over challenge detection: a failed fetch whose responses all
\* carried status 400, 404 or 410 is reported as a terminal failure and is
\* not classified challenge, whatever the response bodies were.
C9_TerminalPriority ==
    (l_failed /\ l_allTerminal) =>
        /\ is_listing_terminal_error(l_lastErr)
        /\ classify_failure(l_lastErr) # "challenge"

\* C10 (as the specification states it).  Before each retry round
\* rotate_credentials is invoked if and only if rotation is enabled, at least
\* CHALLENGE_MIN_COUNT failures remain, and the challenge ratio is at least
\* the threshold.
C10_Original ==
    r_pc = "round" =>
        (r_invoked <=>
            /\ r_rotate
            /\ Len(r_remaining) >= CHALLENGE_MIN_COUNT
            /\ ChallengeCount(r_remaining) * 10 >= r_threshold * Len(r_remaining))

\* C10 (amended).  Before each retry round rotate_credentials is invoked if
\* and only if rotation is enabled, at least CHALLENGE_MIN_COUNT failures
\* remain, at least one of them is classified challenge, and the challenge
\* ratio is at least the threshold.
C10_RotationTrigger ==
    r_pc = "round" =>
        (r_invoked <=>
            /\ r_rotate
            /\ Len(r_remaining) >= CHALLENGE_MIN_COUNT
            /\ ChallengeCount(r_remaining) >= 1
            /\ ChallengeCount(r_remaining) * 10 >= r_threshold * Len(r_remaining))

\* five failures, three of them challenge, threshold 0.6: rotation invoked
C10_Witness ==
    /\ r_pc = "round"
    /\ r_rotate
    /\ r_threshold = 6
    /\ Len(r_remaining) = 5
    /\ ChallengeCount(r_remaining) = 3
    /\ r_invoked

RECURSIVE Halve(_, _)
Halve(c, r) == IF r = 0 THEN c ELSE Halve(c \div 2, r - 1)

\* C11: in retry round r the process_batch call gets the override when
\* retry_concurrency > 0, and otherwise the base concurrency halved r times
\* (rounded down each time) but at least 1.
C11_ConcurrencyDecay ==
    (c_pc = "batch" /\ c_round >= 1) =>
        /\ c_width >= 1
        /\ c_retry_concurrency > 0 => c_width = c_retry_concurrency
        /\ c_retry_concurrency = 0 =>
              c_width = Max2(1, Halve(c_concurrency, c_round))

\* C11 witness: base 24 without override reaches round 2 with concurrency 6
C11_Witness ==
    /\ c_pc = "batch" /\ c_round = 2 /\ c_retry_concurrency = 0
    /\ c_concurrency = 24 /\ c_width = 6

\* C17: the detail tasks inside the semaphore are at most max(1, concurrency)
\* of their process_batch call.
C17_BoundedConcurrency ==
    c_pc = "batch" => Cardinality(Inside) <= Max2(1, c_width)

\* C17 witness: three tasks, width 2: two inside and one kept waiting
C17_Witness ==
    /\ c_pc = "batch" /\ c_width = 2 /\ Len(c_task) = 3
    /\ Cardinality(Inside) = 2
    /\ \E i \in DOMAIN c_task : c_task[i] = "waiting"

\* C12: a detail task whose fetch succeeded and whose parse gave an empty
\* reference is in the failure list with reason empty_reference and not
\* among the models, and no model has an empty reference.
C12_EmptyVersusError ==
    /\ \A t \in d_seen :
          (t.fetched /\ ~t.raised /\ t.reference = "") =>
              /\ \E k \in DOMAIN d_failed :
                    d_failed[k] = [idx |-> t.idx, reason |-> {"empty_reference"}]
              /\ \A m \in d_models_by_idx : m.idx # t.idx
    /\ \A m \in d_models_by_idx : m.reference # ""

\* C12 witness: a batch returned with one empty result among the failures
\* and one model
C12_Witness ==
    /\ d_pc = "returned"
    /\ \E t \in d_seen : t.fetched /\ ~t.raised /\ t.reference = ""
    /\ d_models_by_idx # {}

\* the ids harvested so far in this run or loaded when it started
KnownGood ==
    IdsOf(models) \cup {IdOf(p) : p \in models_by_idx}
                  \cup IdsOf(batch_models) \cup IdsOf(recovered)

FetchingPcs == {"phase1", "batch", "tasks", "rtasks", "retry"} \cup SavePcs

\* C13: from the start of a crawl until its last fetch, every id of the
\* output file found at start (and, with resume, of the checkpoint loaded)
\* is in existing_ids, and no detail task exists for an id that was loaded
\* at start or harvested earlier in the run.
C13_NoRefetchOfKnownGood ==
    (mode = "crawl" /\ pc \in FetchingPcs) =>
        /\ IdsOf(outFile.models) \subseteq existing_ids
        /\ resume => IdsOf(resumedFrom.models) \subseteq existing_ids
        /\ \A t \in tasks : IdOf(t.pos) \notin KnownGood

\* C13 witness: a second run finds records in the output file; its batch
\* holds an entry that is skipped and another one whose task is in flight
C13_Witness ==
    /\ mode = "crawl" /\ pc = "tasks" /\ tasks # {}
    /\ outFile.models # <<>>
    /\ \E k \in DOMAIN batch : IdOf(batch[k]) \in IdsOf(outFile.models)

FailedIdSeq(failed) == [k \in DOMAIN failed |-> IdOf(failed[k].pos)]

\* the state a resumed crawl is in when Phase 2 is about to begin
ResumedBeforePhase2 ==
    /\ mode = "crawl" /\ resume /\ resumedFrom.st = "ok"
    /\ pc \in {"phase1", "batch"} /\ batchNo = 0

\* C14 (stated as in the specification; violated by the code).  Resume
\* merge: before Phase 2 of a resumed crawl the records are the union of
\* the output file's and the checkpoint's records without an id twice, the
\* failures are the persisted failures without an id twice, and Phase 2
\* continues at the checkpoint's processed_count.
C14_ResumeMerge ==
    ResumedBeforePhase2 =>
        /\ IdsOf(models) = IdsOf(outFile.models) \cup IdsOf(resumedFrom.models)
        /\ NoDup(models)
        /\ SeqSet(FailedIdSeq(failed_urls)) = FailedIds(failedFile)
        /\ NoDup(FailedIdSeq(failed_urls))
        /\ start_index = resumedFrom.processed_count

\* C14 without the deduplication of the failures (holds)
C14_ResumeMergeRecords ==
    ResumedBeforePhase2 =>
        /\ IdsOf(models) = IdsOf(outFile.models) \cup IdsOf(resumedFrom.models)
        /\ NoDup(models)
        /\ failed_urls = failedFile.failed
        /\ start_index = resumedFrom.processed_count

\* C15: when a crawl has completed, the output file holds the accumulated
\* records, the checkpoint and the listings cache do not exist, and every
\* failure of the run's failure list is in the failed-entries file.
C15_RunCompletion ==
    (mode = "crawl" /\ pc = "done") =>
        /\ outFile = [st |-> "ok", models |-> models]
        /\ ckptFile.st = "absent"
        /\ cacheFile.st = "absent"
        /\ \A k \in DOMAIN failed_urls :
              /\ failedFile.st = "ok"
              /\ \E j \in DOMAIN failedFile.failed :
                    failedFile.failed[j] = failed_urls[k]

\* C15 witness: a crawl of more than one batch completed with records and
\* with failures outstanding
C15_Witness ==
    /\ mode = "crawl" /\ pc = "done" /\ batchNo = 2
    /\ models # <<>> /\ failed_urls # <<>>

\* C16 (stated as in the specification; violated by the code).  When
\* retry_failed_async is about to rewrite the output file, the records it
\* writes hold every record of the output file it found and no id twice,
\* and the failed-entries file holds exactly the entries that failed again.
C16_RetryFailedInvocation ==
    (mode = "retry_failed" /\ pc = "out_open") =>
        /\ IdsOf(outFile.models) \subseteq IdsOf(models)
        /\ NoDup(models)
        /\ failedFile = [st |-> "ok", failed |-> still_failed]

\* operations that take the refresh lock, once they are past its entry
LockedOps == {"refresh", "rotate", "rotate_impersonate"}

InFlight(p) ==
    /\ k_task[p].op \in LockedOps
    /\ k_task[p].pc \notin {"idle", "lock_wait"}

\* C18 (stated as in the specification; violated by the code).  Every
\* write of credential state (cookies, user agent, impersonation session,
\* browser session) is made by the coroutine that holds the refresh lock,
\* at most one refresh/rotate operation is past the lock at any time, and
\* an ordinary fetch never waits for the refresh lock.
C18_CredentialWritesExclusive ==
    /\ k_g.write.field # "none" => k_g.write.lock = k_g.write.by
    /\ Cardinality({p \in Procs : InFlight(p)}) <= 1
    /\ \A t \in Tasks : k_task[t].op = "fetch" => k_task[t].pc # "lock_wait"

\* C19 (stated as in the specification; violated by the code).  Two
\* consecutive starts of the browser refresh flow by _refresh_cookies are
\* at least refresh_min_interval apart.
C19_RefreshThrottle ==
    k_g.prev_start >= 0 =>
        k_g.last_start - k_g.prev_start >= REFRESH_MIN_INTERVAL

\* C20.  A _refresh_cookies call made while the current time is before
\* _ac_disable_until returns False at once, without a browser or solver
\* call, and leaves the fetcher (cookies, user agent, impersonation,
\* failure counter, cooldown deadline, locks) as it was; a call made once
\* the deadline has passed, with the solver configured, is not refused.
C20_CooldownNoOp ==
    [][\A t \in Tasks : RefreshCookies(t) =>
          /\ (k_f.ac_disable_until # 0 /\ k_now < k_f.ac_disable_until) =>
                /\ k_task'[t].pc = "idle"
                /\ k_task'[t].res = "false"
                /\ k_f' = k_f
          /\ (/\ k_f.ac_disable_until # 0
              /\ k_now >= k_f.ac_disable_until
              /\ k_f.ac_enabled /\ k_f.ac) =>
                ~(k_task'[t].pc = "idle" /\ k_task'[t].res = "false")]_vars

\* a refresh call was refused during a cooldown and, after the deadline,
\* another one was let through
C20_Witness == k_g.refused /\ k_g.reopened

\* C21 (stated as in the specification; violated by the code).  After a
\* solve of a refresh or rotate: when the CAPTCHA solver signalled
\* ERROR_IP_BLOCKED the cooldown deadline is 1800 s after the failure,
\* when the failure was the third consecutive one it is 300 s after it,
\* and after a successful solve the failure counter is 0.
C21_CooldownTriggers ==
    k_g.solve.op \in {"refresh", "rotate"} =>
        /\ k_g.solve.due >= 0 => k_f.ac_disable_until = k_g.solve.due
        /\ k_g.solve.ok => k_f.ac_failures = 0

\* C22 (stated as in the specification; violated by the code).  Two
\* consecutive requests to the host start at least min_delay seconds
\* apart, whatever the width of the semaphore and the number of workers.
C22_PerHostPacing ==
    p_g.prev_start >= 0 =>
        p_g.last_start - p_g.prev_start >= DEFAULT_MIN_DELAY

\* the steps of the price-history chain: the backend of the fetcher and
\* (a) the credential refresh with the request after it, (b) the
\* unblocking proxy, (c) the browser
FallbackRank(step) ==
    IF step = "flaresolverr" THEN 2
    ELSE IF step = "playwright" THEN 3
    ELSE 1

\* C23 (stated as in the specification; violated by the code).  The
\* fallbacks of the price-history request are tried in the order (a),
\* (b), (c), and nothing is tried after a fallback yielded valid JSON.
C23_FallbackChainOrder ==
    e_pc # "idle" =>
        /\ \A i, j \in 1..Len(e_out.trace) :
               i < j => FallbackRank(e_out.trace[i]) <=
                            FallbackRank(e_out.trace[j])
        /\ ~e_out.late

\* C24 (stated as in the specification; violated by the code).  A record
\* whose page has no chart container or token, or whose payload has no
\* point, and whose fetches never raised, is in no failure list and is
\* fetched at most once.
C24_NoHistoryIsNoFailure ==
    e_pc \in {"loop", "batch", "done"} =>
        \A m \in HistoryIds :
            (e_in.page[m] # "points" /\ m \notin e_out.raised) =>
                /\ \A i \in 1..Len(e_out.failed_urls) :
                       e_out.failed_urls[i].watchcharts_id # m
                /\ e_out.fetched[m] <= 1

\* the value of a field of a point for a series and a timestamp: the
\* value of the series at a key that is this integer, None without one
FieldOf(field, series, ts) ==
    IF \E k \in DOMAIN series : safe_int(k) = {ts}
    THEN field # {} /\ field \subseteq GetByInteger(series, ts)
    ELSE field = {}

\* C25 (stated as in the specification; violated by the code).  The
\* points of a parsed payload are at the sorted union, without duplicates,
\* of the integer keys of the three series, and every field of a point is
\* the value of its series at the timestamp, or None when the series has
\* no such key.
C25_PointMerge ==
    (e_pc = "parsed" /\ e_out.history) =>
        /\ [i \in 1..Len(e_out.points) |-> e_out.points[i].timestamp]
               = Timestamps(e_in)
        /\ \A i \in 1..Len(e_out.points) :
               LET p == e_out.points[i]
               IN  /\ FieldOf(p.price, e_in.all, p.timestamp)
                   /\ FieldOf(p.min_price, e_in.min, p.timestamp)
                   /\ FieldOf(p.max_price, e_in.max, p.timestamp)

\* C26 (stated as in the specification; violated by the code).  On every
\* backend a fetch whose last request exceeded the timeout ends as a
\* failure whose reason classify_failure maps to "timeout", and no fetch
\* waits for a semaphore that nothing will release.
C26_TimeoutsClassified ==
    /\ (e_pc \in {"failed", "recorded"} /\ e_out.last = "timeout") =>
           classify_failure(e_out.reason) = "timeout"
    /\ ~(e_pc = "semaphore" /\ e_out.semaphore = 0)

\* C27: the listing pages are requested one after the other and at most
\* max_pages of them: page N + 1 is requested only after page N was
\* fetched with at least LISTING_PAGE_SIZE entries and N is below the
\* cap; the pages appended are pages 1, 2, ... in order; and when the
\* enumeration returns after a fetched page, that page had no entry and
\* was not appended, or had fewer than LISTING_PAGE_SIZE entries, or was
\* page max_pages.
C27_ListingSequentialBounded ==
    [][/\ l_page_num' <= ListingPagesCap
       /\ l_page_num' # l_page_num =>
              /\ l_page_num' = l_page_num + 1
              /\ ~l_failed'
              /\ l_pages[l_page_num] >= LISTING_PAGE_SIZE
              /\ l_page_num < ListingPagesCap
       /\ l_all' = [i \in 1..Len(l_all') |-> i]
       /\ Len(l_all') \in {l_page_num' - 1, l_page_num'}
       /\ (l_pc' = "returned" /\ ~l_failed') =>
              \/ l_pages[l_page_num'] = 0 /\ Len(l_all') = l_page_num' - 1
              \/ /\ l_pages[l_page_num'] \in 1..(LISTING_PAGE_SIZE - 1)
                 /\ Len(l_all') = l_page_num'
              \/ l_page_num' = ListingPagesCap /\ Len(l_all') = l_page_num'
      ]_vars

\* the enumeration stopped at the page cap after full pages, with a
\* further page on the site
C27_Witness ==
    /\ l_pc = "returned"
    /\ l_all = [i \in 1..ListingPagesCap |-> i]
    /\ \A i \in 1..MaxSitePages : l_pages[i] = LISTING_PAGE_SIZE

\* C28: crawl_listing_page makes at most retries + 1 attempts; after the
\* k-th failed attempt it sleeps retry_delay * k before the next one;
\* rotate_credentials is called only after a failure classified challenge
\* and only when rotation is enabled; and it raises after the failure of
\* attempt retries + 1, without a further sleep.
C28_ListingRetryPolicy ==
    [][/\ l_attempt' <= Max2(0, LISTING_RETRIES)
       /\ l_attempt' = l_attempt + 1 =>
              /\ l_failed'
              /\ l_slept' = LISTING_RETRY_DELAY * l_attempt'
       /\ l_rotated' =>
              /\ l_failed'
              /\ classify_failure(l_lastErr') = "challenge"
              /\ l_rotate
       /\ (l_pc = "fetch" /\ l_pc' = "raised") =>
              /\ l_attempt = Max2(0, LISTING_RETRIES)
              /\ l_failed'
              /\ ~is_listing_terminal_error(l_lastErr')
              /\ l_slept' = 0
      ]_vars

\* the last attempt is about to run after two failures, the second one a
\* challenge that triggered the rotation
C28_Witness ==
    /\ l_pc = "fetch"
    /\ l_attempt = LISTING_RETRIES
    /\ l_slept = LISTING_RETRY_DELAY * LISTING_RETRIES
    /\ l_rotated

\* C29 (as the specification states it).  When the orchestrator is back
\* from its rotations, every rotate_credentials call has moved the
\* impersonation profile one entry further in the list and has run the
\* clearance flow once, and none went on with the old browser session.
C29_Original ==
    (k_g.track /\ k_task[0].pc = "idle") =>
        /\ ~k_g.rot.kept_browser
        /\ k_f.impersonate =
               (k_g.rot.calls + k_g.rot.extra) % k_f.n_imp
        /\ k_g.rot.flows = k_g.rot.calls

\* a rotate_credentials call that gets past its first two tests: the
\* backend is not "brightdata" and use_anticaptcha is set
RotationAvailable == k_f.backend # "brightdata" /\ k_f.ac_enabled

\* C29.  A rotate_credentials call of a fetcher with anti-captcha enabled
\* and a backend other than "brightdata" goes on without the browser
\* session, moves the profile of the "curl" backend to the entry after
\* the current one, the first after the last, and then starts the
\* clearance flow once, or not at all when there is no solver client or
\* the solver is cooling down; any other call changes nothing.  So the
\* profile is at (advances of rotate_credentials + advances of
\* rotate_impersonate) modulo the length of the list.
C29_RotationCycle ==
    k_g.track =>
        /\ ~k_g.rot.kept_browser
        /\ k_f.impersonate =
               (k_g.rot.advances + k_g.rot.extra) % k_f.n_imp
        /\ k_task[0].pc = "idle" =>
               /\ k_g.rot.advances =
                      IF RotationAvailable /\ k_f.backend = "curl"
                         /\ k_f.n_imp > 1
                      THEN k_g.rot.calls ELSE 0
               /\ k_g.rot.flows + k_g.rot.refused =
                      IF RotationAvailable THEN k_g.rot.calls ELSE 0

\* with two profiles, two rotate_credentials calls that each discarded the
\* browser session and ran the clearance flow brought the profile back to
\* the first entry
C29_Witness ==
    /\ k_g.track /\ k_task[0].pc = "idle"
    /\ k_f.n_imp = 2
    /\ k_g.rot.calls = 2 /\ k_g.rot.flows = 2 /\ k_g.rot.extra = 0
    /\ k_f.impersonate = 0

\* C30 (stated as in the specification; violated by the code).  When a
\* crawl writes the failed-entries file of a checkpoint, and when it has
\* completed, no watchcharts_id is both among the accumulated records and
\* among the failures.
C30_RecordsFailuresDisjoint ==
    /\ (mode = "crawl" /\ pc = "fl_dump") =>
           IdsOf(models) \cap SeqSet(FailedIdSeq(failed_urls)) = {}
    /\ (mode = "crawl" /\ pc = "done" /\ failedFile.st = "ok") =>
           IdsOf(outFile.models) \cap FailedIds(failedFile) = {}

\* C31 (stated as in the specification; violated by the code).  One
\* _wait_for_cloudflare call asks the CAPTCHA solver at most once.
C31_OneSolverCall ==
    e_pc \in {"w_loop", "w_solve", "w_returned", "w_raised"} =>
        e_out.solves <= 1

\* C31, second half: the wait ends, by returning or by raising.
C31_WaitEnds == <>(e_pc \in {"w_returned", "w_raised"})

\* an attempt that gave a status below 400 with a body that is neither
\* empty nor a challenge page
CleanAttempt(r) == r.kind = "resp" /\ r.status < 400 /\ r.body = "page"

\* C32.  fetch returns a body exactly when an attempt gave a clean page,
\* or when no attempt did, a challenge was seen, the browser fallback is
\* allowed and it gave a page that is no challenge; otherwise it raises,
\* and the detail task is "ok" only after a fetch that returned.
C32_FetchReturnsCleanPages ==
    e_pc = "fetched" =>
        LET clean == \E k \in DOMAIN e_in.resps : CleanAttempt(e_in.resps[k])
            challenged == \E k \in DOMAIN e_in.resps :
                              /\ e_in.resps[k].kind = "resp"
                              /\ e_in.resps[k].body \in {"empty", "challenge"}
            browser == /\ e_in.allow_fallback /\ e_in.backend # "brightdata"
                       /\ challenged /\ e_in.pw = "page"
        IN  /\ e_out.fetch.ok <=> (clean \/ browser)
            /\ ~e_out.fetch.ok => e_out.detail.status = "error"
            /\ e_out.detail.status \in {"ok", "empty"} => e_out.fetch.ok

\* C32: every attempt ended in a transport exception, fetch raised and the
\* task is an error.
C32_Witness ==
    /\ e_pc = "fetched"
    /\ \A k \in DOMAIN e_in.resps : e_in.resps[k].kind = "exc"
    /\ ~e_out.fetch.ok
    /\ e_out.detail.status = "error"

\* C33 (stated as in the specification; violated by the code).  On the
\* "curl" backend with several profiles, when a rotation trigger of the
\* orchestrator (rotate_credentials, then rotate_impersonate when it
\* returned False) has reported a rotation, the impersonation profile is
\* the entry after the one the trigger started with.
C33_ReportedRotationAdvancesOnce ==
    (/\ k_g.track /\ k_g.rot.calls > 0
     /\ k_f.backend = "curl" /\ k_f.n_imp >= 2
     /\ k_task[0].pc = "idle" /\ k_task[0].res = "true") =>
        /\ k_f.impersonate # k_g.rot.before
        /\ k_f.impersonate = (k_g.rot.before + 1) % k_f.n_imp

\* the points where a coroutine awaits a call on the browser page
\* (goto, content, evaluate)
PageAccessPcs == {"browser", "content"}

\* C34 (stated as in the specification; violated by the code).  A
\* coroutine that is navigating, reading or evaluating the browser page
\* holds the one-permit browser semaphore, so no two coroutines use the
\* page at once.
C34_ExclusivePage ==
    \A t \in DOMAIN k_task :
        k_task[t].pc \in PageAccessPcs => k_f.pw_sem = t

\* C35.  While the orchestrator's rotation (rotate_credentials, then
\* rotate_impersonate) is running at the start of a retry round, no detail
\* task is waiting for the semaphore or inside a fetch: every task of the
\* previous process_batch call has returned.
C35_RotationBetweenRounds ==
    c_pc = "rotating" => \A i \in DOMAIN c_task : c_task[i] = "done"

\* C35: a rotation runs before a retry round of a batch of several tasks.
C35_Witness ==
    /\ c_pc = "rotating" /\ c_round >= 1 /\ Len(c_task) >= 2
    /\ \A i \in DOMAIN c_task : c_task[i] = "done"

\* the nesting order: detail semaphore, refresh lock, browser semaphore,
\* solver semaphore; flaresolverr semaphore, flaresolverr lock
LockRank(lock) ==
    CASE lock = "detail" -> 1
      [] lock = "refresh_lock" -> 2
      [] lock = "pw_sem" -> 3
      [] lock = "ac_sem" -> 4
      [] lock = "fs_sem" -> 5
      [] OTHER -> 6

\* task t can take its next step
CanStep(t) ==
    LET tk == e_out[t]
    IN  \/ tk.pc = "l_wait" /\ FreePermits("detail") > 0
        \/ tk.pc = "l_run"
        \/ /\ tk.pc = "l_op"
           /\ \/ tk.held = Len(OpLocks(tk.op))
              \/ FreePermits(OpLocks(tk.op)[tk.held + 1]) > 0

\* C36.  Every task holds its locks in the one nesting order, and as long
\* as a task of the batch has not returned, some task can take a step: no
\* set of tasks waits on each other.
C36_NoLockDeadlock ==
    e_pc = "locks" =>
        /\ \A t \in LockTasks :
               \A i, j \in DOMAIN HeldLocks(e_out[t]) :
                   i < j => LockRank(HeldLocks(e_out[t])[i])
                                < LockRank(HeldLocks(e_out[t])[j])
        /\ (\E t \in LockTasks : e_out[t].pc # "l_done") =>
               \E t \in LockTasks : CanStep(t)

\* C36: one task is in the browser flow of a refresh with the three locks,
\* another waits for the browser semaphore in solve_challenge.
C36_Witness ==
    /\ e_pc = "locks"
    /\ \E a, b \in LockTasks :
           /\ e_out[a].pc = "l_op" /\ e_out[a].op = "refresh"
           /\ e_out[a].held = 3
           /\ e_out[b].pc = "l_op" /\ e_out[b].op = "solve"
           /\ e_out[b].held = 0

\* C36, last part: with every awaited call returning, every task of the
\* batch returns.
C36_BatchCompletes == <>(\A t \in LockTasks : e_out[t].pc = "l_done")

\* C37.  In the price-history-only loop a record's history is fetched at
\* most retry_rounds + 1 times, a record whose fetch gave a history is not
\* queued again, and when the loop has ended every record that lacked a
\* history has one or is in the failure list.
C37_BackfillBounded ==
    e_pc \in {"loop", "batch", "done"} =>
        /\ \A m \in HistoryIds :
               /\ e_out.fetched[m] <= RetryRounds + 1
               /\ m \in e_out.with_history => m \notin SeqSet(e_out.pending)
        /\ e_pc = "done" =>
               \A m \in HistoryIds :
                   \/ m \in e_out.output
                   \/ \E i \in DOMAIN e_out.failed_history :
                          e_out.failed_history[i].watchcharts_id = m

\* C37: the loop has ended with one record fetched retry_rounds + 1 times
\* and recorded as failed, and another one updated after a failed fetch.
C37_Witness ==
    /\ e_pc = "done"
    /\ \E m, n \in HistoryIds :
           /\ e_out.fetched[m] = RetryRounds + 1
           /\ m \notin e_out.output
           /\ n \in e_out.output /\ e_out.fetched[n] >= 2

\* C37, termination: with every history task returning, the loop ends.
C37_BackfillEnds == <>(e_pc = "done")

\* C38.  When the price-history sub-flow of fetch_detail raises or gives
\* no history, status, reference and reason of the task are those of the
\* same task without price history.
C38_HistoryNeverDemotes ==
    (e_pc = "fetched" /\ e_in.include_price_history
        /\ e_in.sub \in {"none", "exception"}) =>
        LET plain == fetch_detail(e_out.fetch, e_in.raises, e_in.reference)
        IN  /\ e_out.detail.status = plain.status
            /\ e_out.detail.reference = plain.reference
            /\ e_out.detail.reason = plain.reason
            /\ e_out.detail.history = "none"

\* C38: a page with a reference whose price-history sub-flow raised gave
\* an "ok" record without history.
C38_Witness ==
    /\ e_pc = "fetched" /\ e_in.include_price_history
    /\ e_in.sub = "exception"
    /\ e_out.fetch.ok
    /\ e_out.detail.status = "ok" /\ e_out.detail.history = "none"

\* the interval check of _refresh_cookies would find the last successful
\* refresh less than refresh_min_interval ago
RecentRefresh ==
    k_f.last_refresh # 0 /\ k_now - k_f.last_refresh < REFRESH_MIN_INTERVAL

\* the call of task t has returned True and left the fetcher as it was
ReturnedTrueUnchanged(t) ==
    /\ k_task'[t].pc = "idle" /\ k_task'[t].res = "true"
    /\ [k_f' EXCEPT !.refresh_lock = 0, !.lock_q = <<>>]
           = [k_f EXCEPT !.refresh_lock = 0, !.lock_q = <<>>]

\* C39 (stated as in the specification; violated by the code).  A
\* _refresh_cookies call made less than refresh_min_interval after the
\* last successful refresh returns True without a browser flow and
\* without a change of the credentials, or is still waiting for the
\* refresh lock.
C39_Original ==
    [][\A t \in Tasks : (RefreshCookies(t) /\ RecentRefresh) =>
          \/ ReturnedTrueUnchanged(t)
          \/ k_task'[t].pc = "lock_wait"]_vars

\* C39 (amended).  A _refresh_cookies call that is not refused at its
\* entry (backend other than brightdata, anti-captcha enabled, solver not
\* in cooldown) and whose interval check, made when it holds the refresh
\* lock, finds the last successful refresh less than refresh_min_interval
\* ago returns True without a browser flow and without a change of the
\* credentials; and the time of the last refresh changes only in a step in
\* which a refresh or a rotation applies a clearance solution.
C39_ThrottledRefresh ==
    [][/\ \A t \in Tasks :
             /\ (/\ RefreshCookies(t) /\ RecentRefresh
                 /\ k_f.backend # "brightdata" /\ k_f.ac_enabled
                 /\ ~ac_disabled(k_f, k_now)) =>
                    \/ ReturnedTrueUnchanged(t)
                    \/ k_task'[t].pc = "lock_wait"
             /\ (/\ LockGranted(t) /\ k_task[t].op = "refresh"
                 /\ RecentRefresh) =>
                    ReturnedTrueUnchanged(t)
       /\ k_f'.last_refresh # k_f.last_refresh =>
              \E p \in Procs :
                  /\ k_task[p].op \in {"refresh", "rotate"}
                  /\ k_task[p].pc = "browser"
                  /\ k_g'.nsol = k_g.nsol + 1]_vars

\* C39: one refresh obtained the only solution so far, and the refresh
\* call of another task inside the interval has returned True.
C39_Witness ==
    /\ k_g.nsol = 1 /\ RecentRefresh
    /\ k_f.cookies = 1
    /\ \A t \in Tasks : k_task[t].pc = "idle" /\ k_task[t].res = "true"

====
